---- MODULE Spec2Model ----
(***************************************************************************)
(* Bilderrahmen: the mailbox-to-display pipeline (main.py), the cursor     *)
(* store (storage.py) and the attachment extractor (processor.py).         *)
(*                                                                         *)
(* The specifications share the variables below:                           *)
(*   Spec       main() and process_uids(), one step per statement group,   *)
(*              with process stops and restarts;                           *)
(*   SpecStore  UIDStore at the level of single file operations, with      *)
(*              process stops and power loss;                              *)
(*   SpecProc   process_message_bytes() at the level of single file        *)
(*              operations, with process stops and power loss;             *)
(*   SpecRepeat process_message_bytes() called again with the bytes of a   *)
(*              call that returned;                                        *)
(*   SpecLoop   the poll loop of main() over the IMAP wrapper, with        *)
(*              connection drops;                                          *)
(*   SpecButton the display under the pipeline thread and the button       *)
(*              thread, with the debounce of button presses;               *)
(*   SpecReply  the failure reply composed for a reason code;              *)
(*   SpecFolder the folder selected on the IMAP session;                   *)
(*   SpecToggle the button thread alone, for any stored orientation;       *)
(*   SpecSettings the settings file read while it is rewritten.            *)
(***************************************************************************)
EXTENDS Integers, Sequences, FiniteSets

\* ------------------------------------------------------------------ bounds
MaxUid == 3          \* message identifiers are 1..MaxUid
MaxRestarts == 1     \* process stops followed by a restart, per behaviour
MaxParts == 2        \* parts of one message
MaxBytes == 2        \* max_bytes passed to process_message_bytes (scaled)
MaxRuns == 1         \* calls of process_message_bytes per behaviour
MaxMail == 2         \* messages waiting in the inbox of the poll loop
MaxQueue == 2        \* edge events waiting to be read by the button thread
MaxImages == 1       \* images the pipeline thread displays per behaviour
MaxFolderMail == 3   \* messages delivered to the inbox in SpecFolder

\* main.py 497
DEBOUNCE_SECONDS == 15

\* main.py 28
REBOOT_MIN_UPTIME_SECONDS == 60 * 60
\* Time passes in steps of Tick seconds; clocks stop at DEBOUNCE_SECONDS.
Tick == 5

\* --------------------------------------------------------------- variables
VARIABLES
    \* main() / process_uids()
    pc,            \* position in main() and in the loop body of process_uids()
    last_uid,      \* main.py: the in-memory cursor (local of main / process_uids)
    mailbox,       \* identifiers present in the inbox on the server
    nextUid,       \* highest identifier the server has assigned so far
    uids,          \* sorted(uids) of the current batch, the part not yet visited
    uid,           \* loop variable of process_uids (0 before the first iteration)
    raw,           \* TRUE when fetch_message_bytes returned bytes for uid
    res,           \* result of process_message_bytes: "none", "ok" or a reason
    prepared,      \* prepared_image is set
    preview,       \* preview_data is set
    nReplies,      \* send_reply calls made in the current iteration
    replyKind,     \* template of the reply attempted in the current iteration
    renderFailed,  \* render_template raised in the current iteration
    internalError, \* process_message_bytes raised in the current iteration
    fx,            \* side effects attempted for uid in the current iteration
    msg,           \* what the fetched message holds: "one_image" or "other"
    paths,         \* number of entries of res["paths"]
    image_path,    \* main.py 643/653: index into paths (0: None)
    failed,        \* best-effort steps that failed in the current iteration
    cursorAtCheck, \* value of last_uid when line 617 was evaluated for uid
    fetchFailed,   \* identifiers whose latest fetch raised (this process run)
    displayed,     \* identifier of the image shown on the display (0: none)
    interrupted,   \* the process was stopped after a delete, before line 728
    restarts,      \* restarts so far
    \* the cursor file, shared by Spec and SpecStore
    fPath,         \* content of uid_state.json as the process sees it
    \* UIDStore at the level of file operations (SpecStore)
    fTmp,          \* content of uid_state.json.tmp as the process sees it
    fPathDisk,     \* content of uid_state.json that survives a power loss
    fTmpDisk,      \* durable content of the file last created as .tmp
    renamePending, \* os.replace has happened but is not yet durable
    spc,           \* position inside UIDStore.set_last_uid / save
    sUid,          \* argument of the set_last_uid call in progress
    sOld,          \* content of uid_state.json when the latest call began
    sNew,          \* record the latest call is to store
    \* process_message_bytes at the level of file operations (SpecProc)
    parts,         \* the parts msg.walk() yields, in order
    ppc,           \* position inside process_message_bytes
    pidx,          \* parts visited so far
    tmpDir,        \* files in tmp_dir
    dataDir,       \* files in data_dir
    cur,           \* tmp_path: name of the candidate file in hand (0: none)
    saved_paths,   \* processor.py 71: names moved into data_dir by this call
    result,        \* the dict process_message_bytes returned
    nextName,      \* names mkstemp has handed out
    runs,          \* calls so far
    prev_run,      \* what the previous call with the same bytes left (SpecRepeat)
    \* the poll loop of main() (SpecLoop)
    lpc,           \* position in main.py 781-844
    net,           \* the IMAP server can be reached
    client,        \* imap_client.py: self.client is not None
    alive,         \* the connection behind self.client still works
    has_new_mail,  \* main.py 801: what idle_wait returned
    luids,         \* main.py 784/810/817: number of identifiers listed
    inbox,         \* messages in the inbox on the server
    errPending,    \* a mailbox error happened and no sleep(POLL_INTERVAL) since
    \* the display, the pipeline thread and the button thread (SpecButton)
    dpc,           \* pipeline thread: position in display_image (main.py 723)
    pimg,          \* pipeline thread: image_path passed to display_image
    nextImg,       \* images the pipeline has stored so far
    bpc,           \* button thread: position in _monitor_buttons_thread
    bimg,          \* button thread: image_path passed to display_image
    queue,         \* edge events not yet read (request.read_edge_events)
    event,         \* the event handle_button was called with last
    since,         \* now - last_press_time, in seconds, up to DEBOUNCE_SECONDS
    sinceArr,      \* seconds since the last accepted press arrived
    orientation,   \* the stored ORIENTATION setting
    wrote,         \* the write_setting of the toggle under way reached the file
    current_image,      \* main.py 389: image last tracked (0: None)
    current_image_path, \* main.py 390
    panel,         \* image on the panel (0: none)
    \* the failure reply of main.py 694-704 (SpecReply)
    rpc,           \* position in step 2B
    error_code,    \* main.py 695: res.get('reason')
    error_message, \* main.py 696: the words of the text for the user
    device_name,   \* main.py 631: the DEVICE_NAME setting
    template,      \* state of templates/email_failure.html
    body,          \* the plain body passed to send_reply (words)
    html,          \* the html body passed to send_reply (words)
    \* the folder selected on the IMAP session (SpecFolder)
    tpc,           \* next mailbox operation of the pipeline
    selected,      \* folder selected on the session: "inbox", "trash", "none"
    listedFrom,    \* folder the identifiers of the latest listing came from
    nInbox,        \* messages in the inbox folder
    pending,       \* listed identifiers the pass has not finished
    handled,       \* messages the pipeline has deleted from the inbox
    \* the reboot decision of the poll loop (SpecLoop)
    checked,       \* what the latest connectivity check saw
    reboot_requested, \* perform_reboot was called by the latest check
    \* the settings file shared by the two threads (SpecSettings)
    cfg,           \* the lines of the settings file
    wpc,           \* position of the button thread inside write_setting
    out_lines,     \* the lines write_setting is about to write
    got            \* the latest read_setting of the pipeline thread

pipeVars == <<pc, last_uid, mailbox, nextUid, uids, uid, raw, res, prepared,
              preview, nReplies, replyKind, renderFailed, internalError, fx,
              msg, paths, image_path, failed,
              cursorAtCheck, fetchFailed, displayed, interrupted,
              restarts>>

storeVars == <<fTmp, fPathDisk, fTmpDisk, renamePending, spc, sUid, sOld, sNew>>

procVars == <<parts, ppc, pidx, tmpDir, dataDir, cur, saved_paths, result,
              nextName, runs>>

loopVars == <<lpc, net, client, alive, has_new_mail, luids, inbox, errPending>>

buttonVars == <<dpc, pimg, nextImg, bpc, bimg, queue, event, since, sinceArr,
                orientation, wrote, current_image, current_image_path, panel>>

replyVars == <<rpc, error_code, error_message, device_name, template, body, html>>

folderVars == <<tpc, selected, listedFrom, nInbox, pending, handled>>

rebootVars == <<checked, reboot_requested>>

settingsVars == <<cfg, wpc, out_lines, got>>

auxVars == <<loopVars, buttonVars, replyVars, folderVars, rebootVars, settingsVars>>

\* What the actions of one specification leave alone.
nonPipeVars == <<storeVars, procVars, prev_run, auxVars>>
nonStoreVars == <<pipeVars, procVars, prev_run, auxVars>>
nonProcVars == <<pipeVars, fPath, storeVars, prev_run, auxVars>>
nonLoopVars == <<pipeVars, fPath, storeVars, procVars, prev_run, buttonVars,
                 replyVars, folderVars, rebootVars, settingsVars>>
nonButtonVars == <<pipeVars, fPath, storeVars, procVars, prev_run, loopVars,
                   replyVars, folderVars, rebootVars, settingsVars>>
nonReplyVars == <<pipeVars, fPath, storeVars, procVars, prev_run, loopVars,
                  buttonVars, folderVars, rebootVars, settingsVars>>
nonFolderVars == <<pipeVars, fPath, storeVars, procVars, prev_run, loopVars,
                   buttonVars, replyVars, rebootVars, settingsVars>>
nonSettingsVars == <<pipeVars, fPath, storeVars, procVars, prev_run, loopVars,
                     buttonVars, replyVars, folderVars, rebootVars>>

\* ------------------------------------------------------------ file contents
\* A file is absent, empty (created or truncated), partial (some bytes of a
\* record) or holds the complete JSON record {"last_uid": uid}.
Absent      == [k |-> "absent",  uid |-> 0]
EmptyFile   == [k |-> "empty",   uid |-> 0]
PartialFile == [k |-> "partial", uid |-> 0]
Rec(n)      == [k |-> "rec",     uid |-> n]

\* storage.py 17-21, UIDStore.load: a missing file is {}, a complete record
\* parses, anything else makes json.load raise.
LoadRaises(f)  == f.k \in {"empty", "partial"}

\* storage.py 31-33 with main.py 757: data.get("last_uid") or 0.
get_last_uid_or_0(f) == IF f.k = "rec" THEN f.uid ELSE 0

Min(S) == CHOOSE x \in S : \A y \in S : x <= y

\* =========================================================================
\* Spec: main() and process_uids()
\* =========================================================================

\* The per-iteration locals of process_uids, as they are before an iteration.
ResetIteration ==
    /\ raw' = FALSE
    /\ res' = "none"
    /\ prepared' = FALSE
    /\ preview' = FALSE
    /\ nReplies' = 0
    /\ replyKind' = "none"
    /\ renderFailed' = FALSE
    /\ internalError' = FALSE
    /\ fx' = {}
    /\ msg' = "none"
    /\ paths' = 0
    /\ image_path' = 0
    /\ failed' = {}

iterVars == <<raw, res, prepared, preview, nReplies, replyKind, renderFailed,
              internalError, fx, msg, paths, image_path, failed>>

\* main.py 617: if uid <= last_uid: continue
SkipGuardStrict(u, cursor) == u < cursor
SkipGuard(u, cursor) == u <= cursor

\* main.py 728: last_uid = max(last_uid, uid)
NewCursorMin(cursor, u) == IF cursor <= u THEN cursor ELSE u
NewCursor(cursor, u) == IF cursor >= u THEN cursor ELSE u

\* processor.py 85, 102, 103: the results process_message_bytes returns.
ExtractReturns == {"ok", "attachment_too_large", "no_valid_image"}

\* processor.py 74-103: the results the call can return for a message of a
\* class. One valid image and nothing else never ends in 85 or 102.
ReturnsFor(m) == IF m = "one_image" THEN {"ok"} ELSE ExtractReturns

\* processor.py 99 and 103: len(res["paths"]), one entry per accepted
\* attachment, at least one when ok.
PathCounts(m, r) ==
    IF r # "ok" THEN {0}
    ELSE IF m = "one_image" THEN {1}
    ELSE 1..MaxParts

\* processor.py 87-99: the files the call has moved into data_dir when it
\* raises at a later part. A message of one part has stored none.
PathCountsRaised(m) == IF m = "one_image" THEN {0} ELSE 0..(MaxParts - 1)

\* main.py 616: sorted(uids), by insertion.
RECURSIVE Insert(_, _)
Insert(x, seq) ==
    IF seq = <<>> THEN <<x>>
    ELSE IF x <= Head(seq) THEN <<x>> \o seq
    ELSE <<Head(seq)>> \o Insert(x, Tail(seq))

\* The list as the server gave it.
unsorted(seq) == seq

RECURSIVE sorted(_)
sorted(seq) ==
    IF seq = <<>> THEN <<>>
    ELSE Insert(Head(seq), sorted(Tail(seq)))

\* imap_client.py 83: the answers search(['ALL']) can give for an inbox, the
\* identifiers in any order.
Listings(S) ==
    {l \in [1..Cardinality(S) -> S] : \A i, j \in 1..Cardinality(S) : l[i] = l[j] => i = j}

\* main.py 722: if prepared_image and image_path
ShouldDisplayPathOnly(p, ip) == ip # 0
ShouldDisplay(p, ip) == p /\ ip # 0

\* main.py 678, 685, 698: each branch of the notify step holds one send_reply
\* call.
SendReplyCallsTwice(r, pv) == IF r = "ok" /\ pv THEN 2 ELSE 1
SendReplyCalls(r, pv) == 1

\* main.py 645, 664, 683, 692: which reply template the notify step uses.
ReplyTemplate(r, pv) ==
    IF r = "ok" THEN (IF pv THEN "success" ELSE "prep_failure") ELSE "failure"

\* The same step ignoring the stored record.
get_last_uid_ignored ==
    /\ pc = "start"
    /\ pc' = "connect"
    /\ last_uid' = 0
    /\ interrupted' = FALSE
    /\ UNCHANGED <<mailbox, nextUid, uids, uid, iterVars, cursorAtCheck,
                   fetchFailed, displayed, restarts, fPath>>
    /\ UNCHANGED nonPipeVars

\* main.py 756-757: store = UIDStore(...); last_uid = store.get_last_uid() or 0.
\* json.load raising is not caught: main() ends with the exception.
get_last_uid ==
    /\ pc = "start"
    /\ IF LoadRaises(fPath)
         THEN pc' = "died" /\ UNCHANGED last_uid
         ELSE pc' = "connect" /\ last_uid' = get_last_uid_or_0(fPath)
    /\ interrupted' = FALSE
    /\ UNCHANGED <<mailbox, nextUid, uids, uid, iterVars, cursorAtCheck,
                   fetchFailed, displayed, restarts, fPath>>
    /\ UNCHANGED nonPipeVars

\* main.py 777-779: if not imap.connect(): return
connect ==
    /\ pc = "connect"
    /\ pc' \in {"list", "exited"}
    /\ UNCHANGED <<last_uid, mailbox, nextUid, uids, uid, iterVars,
                   cursorAtCheck, fetchFailed, displayed, restarts, fPath,
                   interrupted>>
    /\ UNCHANGED nonPipeVars

\* main.py 784 / 810 / 817 with imap_client.py 71-87: search ALL returns every
\* identifier of the inbox in some order; a failed search returns []. Line
\* 616 sorts the list before the loop starts.
get_all_messages_uids ==
    /\ pc = "list"
    /\ \E listing \in Listings(mailbox) \cup {<<>>} : uids' = sorted(listing)
    /\ uid' = 0
    /\ cursorAtCheck' = last_uid
    /\ ResetIteration
    /\ pc' = "loop"
    /\ UNCHANGED <<last_uid, mailbox, nextUid, fetchFailed, displayed,
                   restarts, fPath,
                   interrupted>>
    /\ UNCHANGED nonPipeVars

\* main.py 616 and 733: the list is exhausted, process_uids returns last_uid
\* and its other locals are gone.
process_uids_return ==
    /\ pc = "loop"
    /\ uids = <<>>
    /\ uid' = 0
    /\ cursorAtCheck' = last_uid
    /\ ResetIteration
    /\ pc' = "wait"
    /\ UNCHANGED <<last_uid, mailbox, nextUid, uids, fetchFailed, displayed,
                   restarts, fPath,
                   interrupted>>
    /\ UNCHANGED nonPipeVars

\* main.py 616-618: the next identifier of the sorted list; at or below the
\* cursor.
process_uids_skip ==
    /\ pc = "loop"
    /\ uids # <<>>
    /\ SkipGuard(Head(uids), last_uid)
    /\ uid' = Head(uids)
    /\ uids' = Tail(uids)
    /\ cursorAtCheck' = last_uid
    /\ ResetIteration
    /\ pc' = "loop"
    /\ UNCHANGED <<last_uid, mailbox, nextUid, fetchFailed, displayed,
                   restarts, fPath,
                   interrupted>>
    /\ UNCHANGED nonPipeVars

\* main.py 616-619: the next identifier of the sorted list; above the cursor.
process_uids_enter ==
    /\ pc = "loop"
    /\ uids # <<>>
    /\ ~SkipGuard(Head(uids), last_uid)
    /\ uid' = Head(uids)
    /\ uids' = Tail(uids)
    /\ cursorAtCheck' = last_uid
    /\ ResetIteration
    /\ pc' = "fetch"
    /\ UNCHANGED <<last_uid, mailbox, nextUid, fetchFailed, displayed,
                   restarts, fPath,
                   interrupted>>
    /\ UNCHANGED nonPipeVars

\* main.py 620-631 with imap_client.py 89-95: the fetch returns the bytes.
fetch_message_bytes_ok ==
    /\ pc = "fetch"
    /\ uid \in mailbox
    /\ raw' = TRUE
    \* exactly one attachment, a valid image within the size limit, or
    \* anything else
    /\ msg' \in {"one_image", "other"}
    /\ fx' = fx \cup {"fetch"}
    /\ fetchFailed' = fetchFailed \ {uid}
    /\ pc' = "extract"
    /\ UNCHANGED <<last_uid, mailbox, nextUid, uids, uid, res, prepared,
                   preview, nReplies, replyKind, renderFailed, internalError,
                   cursorAtCheck, displayed, restarts, fPath,
                   paths, image_path, failed,
                   interrupted>>
    /\ UNCHANGED nonPipeVars

\* The same step without the handler at main.py 730: the exception of the
\* fetch leaves process_uids and main().
fetch_message_bytes_raises_uncaught ==
    /\ pc = "fetch"
    /\ fx' = fx \cup {"fetch"}
    /\ fetchFailed' = fetchFailed \cup {uid}
    /\ pc' = "died"
    /\ UNCHANGED <<last_uid, mailbox, nextUid, uids, uid, raw, res, prepared,
                   preview, nReplies, replyKind, renderFailed, internalError,
                   cursorAtCheck, displayed, restarts, fPath,
                   msg, paths, image_path, failed,
                   interrupted>>
    /\ UNCHANGED nonPipeVars

\* main.py 620 and 730-731: the fetch raises (connection lost, identifier not
\* in the answer); the outer handler logs and the loop goes on.
fetch_message_bytes_raises ==
    /\ pc = "fetch"
    /\ fx' = fx \cup {"fetch"}
    /\ fetchFailed' = fetchFailed \cup {uid}
    /\ pc' = "loop"
    /\ UNCHANGED <<last_uid, mailbox, nextUid, uids, uid, raw, res, prepared,
                   preview, nReplies, replyKind, renderFailed, internalError,
                   cursorAtCheck, displayed, restarts, fPath,
                   msg, paths, image_path, failed,
                   interrupted>>
    /\ UNCHANGED nonPipeVars

\* main.py 633-639: res = process_message_bytes(...) returns a result.
process_message_bytes_returns ==
    /\ pc = "extract"
    /\ \E r \in ReturnsFor(msg) :
         /\ res' = r
         /\ paths' \in PathCounts(msg, r)
         /\ pc' = IF r = "ok" THEN "prepare" ELSE "notify"
    /\ fx' = fx \cup {"extract"}
    /\ UNCHANGED <<last_uid, mailbox, nextUid, uids, uid, raw, prepared,
                   preview, nReplies, replyKind, renderFailed, internalError,
                   cursorAtCheck, fetchFailed, displayed, restarts, fPath,
                   msg, image_path, failed,
                   interrupted>>
    /\ UNCHANGED nonPipeVars

\* main.py 633-639 and 730-731: process_message_bytes raises (processor.py
\* 30, 44, 98 are outside any try); only the outer handler catches it.
process_message_bytes_raises ==
    /\ pc = "extract"
    /\ internalError' = TRUE
    /\ paths' \in PathCountsRaised(msg)
    /\ fx' = fx \cup {"extract"}
    /\ pc' = "loop"
    /\ UNCHANGED <<last_uid, mailbox, nextUid, uids, uid, raw, res, prepared,
                   preview, nReplies, replyKind, renderFailed, cursorAtCheck,
                   fetchFailed, displayed, restarts, fPath,
                   msg, image_path, failed,
                   interrupted>>
    /\ UNCHANGED nonPipeVars

\* main.py 645-660 with 274-327: image_path = paths[0], and
\* prepare_image_for_display returns (image, preview), (image, None) when
\* only the preview failed, or (None, None) with an error message.
prepare_image_for_display ==
    /\ pc = "prepare"
    /\ paths > 0
    /\ image_path' = 1
    /\ \E p \in {<<TRUE, TRUE>>, <<TRUE, FALSE>>, <<FALSE, FALSE>>} :
         /\ prepared' = p[1]
         /\ preview' = p[2]
    /\ fx' = fx \cup {"prepare"}
    /\ pc' = "notify"
    /\ UNCHANGED <<last_uid, mailbox, nextUid, uids, uid, raw, res, nReplies,
                   replyKind, renderFailed, internalError, cursorAtCheck,
                   fetchFailed, displayed, restarts, fPath,
                   msg, paths, failed,
                   interrupted>>
    /\ UNCHANGED nonPipeVars

\* main.py 662-705: render_template, then one send_reply call with the
\* template the branch selects. The call was made whether send_reply
\* returns or raises; when it raises the handler at 690 / 704 logs.
\* The same step without the handlers at main.py 690 and 704: a failing
\* send_reply ends the iteration in the handler at 730.
notify_send_reply_uncaught ==
    /\ pc = "notify"
    /\ nReplies' = nReplies + SendReplyCalls(res, preview)
    /\ replyKind' = ReplyTemplate(res, preview)
    /\ fx' = fx \cup {"reply"}
    /\ \/ /\ failed' = failed
          /\ pc' = "delete"
       \/ /\ failed' = failed \cup {"notify"}
          /\ pc' = "loop"
    /\ UNCHANGED <<last_uid, mailbox, nextUid, uids, uid, raw, res, prepared,
                   preview, renderFailed, internalError, cursorAtCheck,
                   fetchFailed, displayed, restarts, fPath,
                   msg, paths, image_path,
                   interrupted>>
    /\ UNCHANGED nonPipeVars

notify_send_reply ==
    /\ pc = "notify"
    /\ failed' \in {failed, failed \cup {"notify"}}
    /\ nReplies' = nReplies + SendReplyCalls(res, preview)
    /\ replyKind' = ReplyTemplate(res, preview)
    /\ fx' = fx \cup {"reply"}
    /\ pc' = "delete"
    /\ UNCHANGED <<last_uid, mailbox, nextUid, uids, uid, raw, res, prepared,
                   preview, renderFailed, internalError, cursorAtCheck,
                   fetchFailed, displayed, restarts, fPath,
                   msg, paths, image_path,
                   interrupted>>
    /\ UNCHANGED nonPipeVars

\* main.py 677 / 684 / 697 with smtp_sender.py 39-61: render_template raises
\* (template missing, missing variable) before send_reply is reached; the
\* handler at 690 / 704 logs.
notify_render_raises ==
    /\ pc = "notify"
    /\ renderFailed' = TRUE
    /\ failed' = failed \cup {"notify"}
    /\ pc' = "delete"
    /\ UNCHANGED <<last_uid, mailbox, nextUid, uids, uid, raw, res, prepared,
                   preview, nReplies, replyKind, internalError, fx,
                   cursorAtCheck, fetchFailed, displayed, restarts, fPath,
                   msg, paths, image_path,
                   interrupted>>
    /\ UNCHANGED nonPipeVars

\* The same step without the try at main.py 708: a failed delete ends the
\* iteration in the handler at 730.
delete_message_fatal ==
    /\ pc = "delete"
    /\ \/ /\ mailbox' = mailbox \ {uid}
          /\ failed' = failed
          /\ pc' = "trash"
       \/ /\ mailbox' = mailbox
          /\ failed' = failed \cup {"delete"}
          /\ pc' = "loop"
    /\ fx' = fx \cup {"delete"}
    /\ UNCHANGED <<last_uid, nextUid, uids, uid, raw, res, prepared, preview,
                   nReplies, replyKind, renderFailed, internalError,
                   cursorAtCheck, fetchFailed, displayed, restarts, fPath,
                   msg, paths, image_path,
                   interrupted>>
    /\ UNCHANGED nonPipeVars

\* main.py 708-712 with imap_client.py 97-105: best effort; the message is
\* expunged or, when the server call fails, stays in the inbox.
delete_message ==
    /\ pc = "delete"
    /\ \/ /\ mailbox' = mailbox \ {uid}
          /\ failed' = failed
       \/ /\ mailbox' = mailbox
          /\ failed' = failed \cup {"delete"}
    /\ fx' = fx \cup {"delete"}
    /\ pc' = "trash"
    /\ UNCHANGED <<last_uid, nextUid, uids, uid, raw, res, prepared, preview,
                   nReplies, replyKind, renderFailed, internalError,
                   cursorAtCheck, fetchFailed, displayed, restarts, fPath,
                   msg, paths, image_path,
                   interrupted>>
    /\ UNCHANGED nonPipeVars

\* main.py 714-718 with imap_client.py 107-125: best effort.
empty_trash ==
    /\ pc = "trash"
    /\ failed' \in {failed, failed \cup {"trash"}}
    /\ fx' = fx \cup {"trash"}
    /\ pc' = "display"
    /\ UNCHANGED <<last_uid, mailbox, nextUid, uids, uid, raw, res, prepared,
                   preview, nReplies, replyKind, renderFailed, internalError,
                   cursorAtCheck, fetchFailed, displayed, restarts, fPath,
                   msg, paths, image_path,
                   interrupted>>
    /\ UNCHANGED nonPipeVars

\* The display step placed before the cleanup instead of after it.
display_image_before_delete ==
    /\ pc = "delete"
    /\ "display" \notin fx
    /\ ShouldDisplay(prepared, image_path)
    /\ displayed' \in {uid, displayed}
    /\ fx' = fx \cup {"display"}
    /\ UNCHANGED <<pc, last_uid, mailbox, nextUid, uids, uid, raw, res,
                   prepared, preview, nReplies, replyKind, renderFailed,
                   internalError, cursorAtCheck, fetchFailed, restarts, fPath,
                   msg, paths, image_path, failed,
                   interrupted>>
    /\ UNCHANGED nonPipeVars

\* main.py 720-726 with 330-386: display_image shows the image or fails.
display_image ==
    /\ pc = "display"
    /\ IF ShouldDisplay(prepared, image_path)
         THEN /\ displayed' \in {uid, displayed}
              /\ fx' = fx \cup {"display"}
         ELSE UNCHANGED <<displayed, fx>>
    /\ pc' = "advance"
    /\ UNCHANGED <<last_uid, mailbox, nextUid, uids, uid, raw, res, prepared,
                   preview, nReplies, replyKind, renderFailed, internalError,
                   cursorAtCheck, fetchFailed, restarts, fPath,
                   msg, paths, image_path, failed,
                   interrupted>>
    /\ UNCHANGED nonPipeVars

\* main.py 728
advance_last_uid ==
    /\ pc = "advance"
    /\ last_uid' = NewCursor(last_uid, uid)
    /\ fx' = fx \cup {"cursor"}
    /\ pc' = "persist"
    /\ UNCHANGED <<mailbox, nextUid, uids, uid, raw, res, prepared, preview,
                   nReplies, replyKind, renderFailed, internalError,
                   cursorAtCheck, fetchFailed, displayed, restarts, fPath,
                   msg, paths, image_path, failed,
                   interrupted>>
    /\ UNCHANGED nonPipeVars

\* main.py 729 with storage.py 35-38, as one step: the record is replaced.
set_last_uid_ok ==
    /\ pc = "persist"
    /\ ~LoadRaises(fPath)
    /\ fPath' = Rec(last_uid)
    /\ fx' = fx \cup {"persist"}
    /\ pc' = "loop"
    /\ UNCHANGED <<last_uid, mailbox, nextUid, uids, uid, raw, res, prepared,
                   preview, nReplies, replyKind, renderFailed, internalError,
                   cursorAtCheck, fetchFailed, displayed, restarts,
                   msg, paths, image_path, failed,
                   interrupted>>
    /\ UNCHANGED nonPipeVars

\* The same step with lines 728 and 729 in the other order: a failed write
\* leaves the in-memory cursor where it was before the message.
set_last_uid_raises_before_advance ==
    /\ pc = "persist"
    /\ failed' = failed \cup {"persist"}
    /\ last_uid' = cursorAtCheck
    /\ pc' = "loop"
    /\ UNCHANGED <<mailbox, nextUid, uids, uid, raw, res, prepared,
                   preview, nReplies, replyKind, renderFailed, internalError,
                   fx, msg, paths, image_path,
                   cursorAtCheck, fetchFailed, displayed, restarts, fPath,
                   interrupted>>
    /\ UNCHANGED nonPipeVars

\* main.py 729-731: set_last_uid raises (load or save fails); the outer
\* handler logs, the file keeps its content.
set_last_uid_raises ==
    /\ pc = "persist"
    /\ failed' = failed \cup {"persist"}
    /\ pc' = "loop"
    /\ UNCHANGED <<last_uid, mailbox, nextUid, uids, uid, raw, res, prepared,
                   preview, nReplies, replyKind, renderFailed, internalError,
                   fx, msg, paths, image_path,
                   cursorAtCheck, fetchFailed, displayed, restarts, fPath,
                   interrupted>>
    /\ UNCHANGED nonPipeVars

\* main.py 794-812: the wait between two batches ends (notification, timeout
\* or error) and the loop lists again.
idle_wait ==
    /\ pc = "wait"
    /\ pc' = "list"
    /\ UNCHANGED <<last_uid, mailbox, nextUid, uids, uid, iterVars,
                   cursorAtCheck, fetchFailed, displayed, restarts, fPath,
                   interrupted>>
    /\ UNCHANGED nonPipeVars

\* The server delivers a new message; identifiers grow and are never reused.
Arrive ==
    /\ nextUid < MaxUid
    /\ nextUid' = nextUid + 1
    /\ mailbox' = mailbox \cup {nextUid + 1}
    /\ UNCHANGED <<pc, last_uid, uids, uid, iterVars, cursorAtCheck,
                   fetchFailed, displayed, restarts, fPath,
                   interrupted>>
    /\ UNCHANGED nonPipeVars

\* The process stops at any point (kill, reboot, uncaught exception) and is
\* started again: main.py 850-851. Its locals are lost; last_uid keeps its
\* old value here only until line 757 assigns it in the new process.
Restart ==
    /\ restarts < MaxRestarts
    /\ restarts' = restarts + 1
    /\ pc' = "start"
    /\ uids' = <<>>
    /\ uid' = 0
    /\ cursorAtCheck' = 0
    /\ fetchFailed' = {}
    /\ interrupted' = (pc \in {"trash", "display", "advance"} /\ "delete" \notin failed)
    /\ ResetIteration
    /\ UNCHANGED <<last_uid, mailbox, nextUid, displayed, fPath>>
    /\ UNCHANGED nonPipeVars

\* =========================================================================
\* SpecStore: UIDStore.set_last_uid and UIDStore.save, one file operation per
\* step. The process sees the page cache (fPath, fTmp); a power loss leaves
\* what had reached the disk (fPathDisk, fTmpDisk). Data reaches the disk by
\* os.fsync or by the kernel's write-back at any time; a rename reaches the
\* disk some time after os.replace returns, and no later than the next call.
\* =========================================================================

\* storage.py 35: a caller passes an identifier to set_last_uid.
store_call ==
    /\ spc = "idle"
    /\ ~renamePending
    /\ \E u \in 1..MaxUid :
         /\ sUid' = u
         /\ sNew' = Rec(u)
    /\ sOld' = fPath
    /\ spc' = "load"
    /\ UNCHANGED <<fPath, fTmp, fPathDisk, fTmpDisk, renamePending>>
    /\ UNCHANGED nonStoreVars

\* storage.py 36 with 17-21: data = self.load(); json.load raises on a file
\* that holds no complete record, and set_last_uid raises with it.
store_load ==
    /\ spc = "load"
    /\ spc' = IF LoadRaises(fPath) THEN "idle" ELSE "open"
    /\ UNCHANGED <<fPath, fTmp, fPathDisk, fTmpDisk, renamePending, sUid,
                   sOld, sNew>>
    /\ UNCHANGED nonStoreVars

\* storage.py 24-25: open(self.path + ".tmp", "w") creates or truncates.
store_save_open ==
    /\ spc = "open"
    /\ fTmp' = EmptyFile
    /\ spc' = "dump"
    /\ UNCHANGED <<fPath, fPathDisk, fTmpDisk, renamePending, sUid, sOld, sNew>>
    /\ UNCHANGED nonStoreVars

\* storage.py 26: json.dump(data, f); part of the record is in the file.
store_save_dump ==
    /\ spc = "dump"
    /\ fTmp' = PartialFile
    /\ spc' = "flush"
    /\ UNCHANGED <<fPath, fPathDisk, fTmpDisk, renamePending, sUid, sOld, sNew>>
    /\ UNCHANGED nonStoreVars

\* storage.py 27: f.flush(); the whole record is in the file.
store_save_flush ==
    /\ spc = "flush"
    /\ fTmp' = Rec(sUid)
    /\ spc' = "fsync"
    /\ UNCHANGED <<fPath, fPathDisk, fTmpDisk, renamePending, sUid, sOld, sNew>>
    /\ UNCHANGED nonStoreVars

\* The same step without the os.fsync call.
store_save_fsync_omitted ==
    /\ spc = "fsync"
    /\ spc' = "replace"
    /\ UNCHANGED <<fPath, fTmp, fPathDisk, fTmpDisk, renamePending, sUid,
                   sOld, sNew>>
    /\ UNCHANGED nonStoreVars

\* storage.py 28: os.fsync(f.fileno()); the file's data is on the disk.
store_save_fsync ==
    /\ spc = "fsync"
    /\ fTmpDisk' = fTmp
    /\ spc' = "replace"
    /\ UNCHANGED <<fPath, fTmp, fPathDisk, renamePending, sUid, sOld, sNew>>
    /\ UNCHANGED nonStoreVars

\* storage.py 29: os.replace(tmp, self.path); the process sees the new file
\* under the final name at once, the disk follows later. set_last_uid returns.
store_save_replace ==
    /\ spc = "replace"
    /\ fPath' = fTmp
    /\ fTmp' = Absent
    /\ renamePending' = TRUE
    /\ spc' = "idle"
    /\ UNCHANGED <<fPathDisk, fTmpDisk, sUid, sOld, sNew>>
    /\ UNCHANGED nonStoreVars

\* The kernel writes the data of the file created as .tmp back to the disk.
WriteBackData ==
    /\ fTmpDisk # (IF renamePending THEN fPath ELSE fTmp)
    /\ fTmpDisk' = (IF renamePending THEN fPath ELSE fTmp)
    /\ UNCHANGED <<fPath, fTmp, fPathDisk, renamePending, spc, sUid, sOld, sNew>>
    /\ UNCHANGED nonStoreVars

\* The file system commits the rename: the final name now leads, on the disk
\* too, to the file created as .tmp, with whatever data of it is durable.
CommitRename ==
    /\ renamePending
    /\ fPathDisk' = IF fTmpDisk = Absent THEN EmptyFile ELSE fTmpDisk
    /\ fTmpDisk' = Absent
    /\ renamePending' = FALSE
    /\ UNCHANGED <<fPath, fTmp, spc, sUid, sOld, sNew>>
    /\ UNCHANGED nonStoreVars

\* The process is killed at any point; the files stay as the process saw them.
StoreProcessStop ==
    /\ spc # "idle"
    /\ spc' = "idle"
    /\ UNCHANGED <<fPath, fTmp, fPathDisk, fTmpDisk, renamePending, sUid,
                   sOld, sNew>>
    /\ UNCHANGED nonStoreVars

\* Power is lost at any point; after the reboot the files hold what was on
\* the disk.
PowerLoss ==
    /\ fPath' = fPathDisk
    /\ fTmp' = fTmpDisk
    /\ renamePending' = FALSE
    /\ spc' = "idle"
    /\ UNCHANGED <<fPathDisk, fTmpDisk, sUid, sOld, sNew>>
    /\ UNCHANGED nonStoreVars

StoreInit ==
    /\ fTmp = Absent
    /\ fPathDisk = fPath
    /\ fTmpDisk = Absent
    /\ renamePending = FALSE
    /\ spc = "idle"
    /\ sUid = 0
    /\ sOld = fPath
    /\ sNew = fPath

StoreNext ==
    \/ store_call
    \/ store_load
    \/ store_save_open
    \/ store_save_dump
    \/ store_save_flush
    \/ store_save_fsync
    \/ store_save_replace
    \/ WriteBackData
    \/ CommitRename
    \/ StoreProcessStop
    \/ PowerLoss

\* =========================================================================
\* SpecProc: process_message_bytes, one file operation per step.
\* =========================================================================

\* A file is a record: its base name, the part of the message it was made
\* from, what its bytes are (kind), how much of them is written (content),
\* whether they are on the disk (synced) and whether validation passed.
\*
\* A part of the message as the loop at processor.py 74 sees it:
\*   disp   it has a Content-Disposition header
\*   multi  its main type is multipart
\*   size   length of its decoded payload
\*   kind   what the payload is: an intact image, no image, or a file with an
\*          image signature that fails Image.verify()
\*   fault  the library call that raises while this part is handled: mkstemp
\*          or the write ("save": file name with "/", name too long, disk
\*          full), magic.from_file ("sniff"), os.replace ("move"), or none
\*
\* Payload sizes within the limit: just below max_bytes and exactly max_bytes.
SizesWithin == {MaxBytes - 1, MaxBytes}

PartTypes ==
    {[disp |-> FALSE, multi |-> FALSE, size |-> 1, kind |-> "image", fault |-> "none"],
     [disp |-> TRUE, multi |-> TRUE, size |-> 0, kind |-> "image", fault |-> "none"]}
    \cup {[disp |-> TRUE, multi |-> FALSE, size |-> n, kind |-> "image", fault |-> "none"] :
            n \in {0, MaxBytes + 1}}
    \cup {[disp |-> TRUE, multi |-> FALSE, size |-> n, kind |-> k, fault |-> f] :
            n \in SizesWithin, k \in {"image", "not_image", "corrupt"},
            f \in {"none", "save", "sniff"}}
    \cup {[disp |-> TRUE, multi |-> FALSE, size |-> n, kind |-> "image", fault |-> "move"] :
            n \in SizesWithin}

Messages == UNION {[1..n -> PartTypes] : n \in 0..MaxParts}

\* processor.py 75-83: the part is passed over (no disposition header,
\* multipart container, empty payload).
SkippedWithoutEmptyCheck(p) == ~p.disp \/ p.multi
Skipped(p) == ~p.disp \/ p.multi \/ p.size = 0

\* processor.py 84: if len(payload) > max_bytes
TooLarge(p) == p.size > MaxBytes

\* processor.py 21-22 with 44-47: the sniffed type starts with "image/".
is_image_mime(k) == k # "not_image"

\* processor.py 38-55 without the Image.verify() block.
validate_mime_only(k) == is_image_mime(k)

\* processor.py 38-55: validate_and_sanitize_image, when magic does not raise.
validate_and_sanitize_image(k) == is_image_mime(k) /\ k # "corrupt"

\* The file of that name in a directory.
FileIn(dir, n) == CHOOSE f \in dir : f.name = n

\* processor.py 58-72: the call begins.
proc_call ==
    /\ ppc \in {"idle", "returned", "raised"}
    /\ runs < MaxRuns
    /\ runs' = runs + 1
    /\ pidx' = 0
    /\ cur' = 0
    /\ saved_paths' = <<>>
    /\ result' = [ok |-> FALSE, reason |-> "none"]
    /\ ppc' = "walk"
    /\ UNCHANGED <<parts, tmpDir, dataDir, nextName>>
    /\ UNCHANGED nonProcVars

\* processor.py 74-83: continue
proc_skip_part ==
    /\ ppc = "walk"
    /\ pidx < Len(parts)
    /\ Skipped(parts[pidx + 1])
    /\ pidx' = pidx + 1
    /\ UNCHANGED <<parts, ppc, tmpDir, dataDir, cur, saved_paths, result,
                   nextName, runs>>
    /\ UNCHANGED nonProcVars

\* processor.py 84-85: return {"ok": False, "reason": "attachment_too_large"}
proc_too_large ==
    /\ ppc = "walk"
    /\ pidx < Len(parts)
    /\ ~Skipped(parts[pidx + 1])
    /\ TooLarge(parts[pidx + 1])
    /\ result' = [ok |-> FALSE, reason |-> "attachment_too_large"]
    /\ ppc' = "returned"
    /\ UNCHANGED <<parts, pidx, tmpDir, dataDir, cur, saved_paths, nextName, runs>>
    /\ UNCHANGED nonProcVars

\* processor.py 87 with 28-30: os.makedirs and tempfile.mkstemp create an
\* empty file of a fresh name in tmp_dir, or raise.
proc_mkstemp ==
    /\ ppc = "walk"
    /\ pidx < Len(parts)
    /\ ~Skipped(parts[pidx + 1])
    /\ ~TooLarge(parts[pidx + 1])
    /\ IF parts[pidx + 1].fault = "save"
         THEN /\ ppc' = "raised"
              /\ UNCHANGED <<tmpDir, cur, nextName>>
         ELSE /\ tmpDir' = tmpDir \cup
                    {[name |-> nextName + 1, part |-> pidx + 1,
                      kind |-> parts[pidx + 1].kind,
                      content |-> "empty", synced |-> FALSE, valid |-> FALSE]}
              /\ cur' = nextName + 1
              /\ nextName' = nextName + 1
              /\ ppc' = "write"
    /\ UNCHANGED <<parts, pidx, dataDir, saved_paths, result, runs>>
    /\ UNCHANGED nonProcVars

\* processor.py 31-33: f.write(data); f.flush()
proc_write ==
    /\ ppc = "write"
    /\ tmpDir' = (tmpDir \ {FileIn(tmpDir, cur)})
                    \cup {[FileIn(tmpDir, cur) EXCEPT !.content = "full"]}
    /\ ppc' = "fsync"
    /\ UNCHANGED <<parts, pidx, dataDir, cur, saved_paths, result, nextName, runs>>
    /\ UNCHANGED nonProcVars

\* processor.py 34-35: os.fsync(f.fileno()); return path
proc_fsync ==
    /\ ppc = "fsync"
    /\ tmpDir' = (tmpDir \ {FileIn(tmpDir, cur)})
                    \cup {[FileIn(tmpDir, cur) EXCEPT !.synced = TRUE]}
    /\ ppc' = "validate"
    /\ UNCHANGED <<parts, pidx, dataDir, cur, saved_paths, result, nextName, runs>>
    /\ UNCHANGED nonProcVars

\* processor.py 88-89 with 38-55: ok = validate_and_sanitize_image(tmp_path);
\* magic.from_file is outside the try of the function and may raise.
proc_validate ==
    /\ ppc = "validate"
    /\ IF parts[pidx + 1].fault = "sniff"
         THEN /\ ppc' = "raised"
              /\ UNCHANGED tmpDir
         ELSE IF validate_and_sanitize_image(FileIn(tmpDir, cur).kind)
                THEN /\ tmpDir' = (tmpDir \ {FileIn(tmpDir, cur)})
                            \cup {[FileIn(tmpDir, cur) EXCEPT !.valid = TRUE]}
                     /\ ppc' = "move"
                ELSE /\ ppc' = "remove"
                     /\ UNCHANGED tmpDir
    /\ UNCHANGED <<parts, pidx, dataDir, cur, saved_paths, result, nextName, runs>>
    /\ UNCHANGED nonProcVars

\* processor.py 89-94: os.remove(tmp_path), a failure of it is logged; continue
proc_remove ==
    /\ ppc = "remove"
    /\ tmpDir' \in {tmpDir \ {FileIn(tmpDir, cur)}, tmpDir}
    /\ cur' = 0
    /\ pidx' = pidx + 1
    /\ ppc' = "walk"
    /\ UNCHANGED <<parts, dataDir, saved_paths, result, nextName, runs>>
    /\ UNCHANGED nonProcVars

\* processor.py 96-99: os.replace(tmp_path, final_path) under the same base
\* name, saved_paths.append(final_path); os.replace may raise.
proc_move ==
    /\ ppc = "move"
    /\ IF parts[pidx + 1].fault = "move"
         THEN /\ ppc' = "raised"
              /\ UNCHANGED <<tmpDir, dataDir, cur, saved_paths, pidx>>
         ELSE /\ tmpDir' = tmpDir \ {FileIn(tmpDir, cur)}
              /\ dataDir' = {f \in dataDir : f.name # cur} \cup {FileIn(tmpDir, cur)}
              /\ saved_paths' = Append(saved_paths, cur)
              /\ cur' = 0
              /\ pidx' = pidx + 1
              /\ ppc' = "walk"
    /\ UNCHANGED <<parts, result, nextName, runs>>
    /\ UNCHANGED nonProcVars

\* processor.py 101-103: the results after the last part.
proc_finish ==
    /\ ppc = "walk"
    /\ pidx = Len(parts)
    /\ result' = IF saved_paths = <<>>
                   THEN [ok |-> FALSE, reason |-> "no_valid_image"]
                   ELSE [ok |-> TRUE, reason |-> "none"]
    /\ ppc' = "returned"
    /\ UNCHANGED <<parts, pidx, tmpDir, dataDir, cur, saved_paths, nextName, runs>>
    /\ UNCHANGED nonProcVars

\* processor.py 58-72: the caller passes the bytes of a call that returned
\* once more, with the same tmp_dir and data_dir.
proc_call_again ==
    /\ ppc = "returned"
    /\ runs < MaxRuns + 1
    /\ prev_run' = [called |-> TRUE, paths |-> saved_paths,
                    files |-> Cardinality(dataDir)]
    /\ runs' = runs + 1
    /\ pidx' = 0
    /\ cur' = 0
    /\ saved_paths' = <<>>
    /\ result' = [ok |-> FALSE, reason |-> "none"]
    /\ ppc' = "walk"
    /\ UNCHANGED <<parts, tmpDir, dataDir, nextName>>
    /\ UNCHANGED <<pipeVars, fPath, storeVars, auxVars>>

\* The process is killed inside the call; the files stay as they are.
ProcProcessStop ==
    /\ ppc \in {"walk", "write", "fsync", "validate", "remove", "move"}
    /\ ppc' = "idle"
    /\ UNCHANGED <<parts, pidx, tmpDir, dataDir, cur, saved_paths, result,
                   nextName, runs>>
    /\ UNCHANGED nonProcVars

\* Power is lost inside the call; data that was not fsynced is gone.
ProcPowerLoss ==
    /\ ppc \in {"walk", "write", "fsync", "validate", "remove", "move"}
    /\ ppc' = "idle"
    /\ tmpDir' = {IF f.synced THEN f ELSE [f EXCEPT !.content = "empty"] : f \in tmpDir}
    /\ dataDir' = {IF f.synced THEN f ELSE [f EXCEPT !.content = "empty"] : f \in dataDir}
    /\ UNCHANGED <<parts, pidx, cur, saved_paths, result, nextName, runs>>
    /\ UNCHANGED nonProcVars

\* The state before the first call; both directories are empty.
ProcIdle ==
    /\ ppc = "idle"
    /\ pidx = 0
    /\ tmpDir = {}
    /\ dataDir = {}
    /\ cur = 0
    /\ saved_paths = <<>>
    /\ result = [ok |-> FALSE, reason |-> "none"]
    /\ nextName = 0
    /\ runs = 0
    /\ prev_run = [called |-> FALSE, paths |-> <<>>, files |-> 0]

ProcNext ==
    \/ proc_call
    \/ proc_skip_part
    \/ proc_too_large
    \/ proc_mkstemp
    \/ proc_write
    \/ proc_fsync
    \/ proc_validate
    \/ proc_remove
    \/ proc_move
    \/ proc_finish
    \/ ProcProcessStop
    \/ ProcPowerLoss

RepeatNext ==
    \/ proc_call
    \/ proc_call_again
    \/ proc_skip_part
    \/ proc_too_large
    \/ proc_mkstemp
    \/ proc_write
    \/ proc_fsync
    \/ proc_validate
    \/ proc_remove
    \/ proc_move
    \/ proc_finish

\* =========================================================================
\* SpecLoop: the poll loop of main() over the IMAP wrapper.
\* =========================================================================

\* imap_client.py 73-75, 90-92, 129-132: a call works on the connection it
\* holds, or on a new one when it holds none and connect() succeeds.
Usable == IF client THEN alive ELSE net

\* imap_client.py 71-87: get_all_messages_uids. With no client and connect()
\* failing it returns []; a failing search is caught and returns []; the
\* client object is kept in that case.
Search(next) ==
    /\ IF Usable
         THEN /\ luids' = inbox
              /\ client' = TRUE
              /\ alive' = TRUE
              /\ UNCHANGED errPending
         ELSE /\ luids' = 0
              /\ errPending' = TRUE
              /\ UNCHANGED <<client, alive>>
    /\ lpc' = next
    /\ UNCHANGED <<net, has_new_mail, inbox>>
    /\ UNCHANGED nonLoopVars

\* main.py 614-733 seen from the loop: with a usable connection every listed
\* message is fetched, processed and deleted; without one every fetch raises
\* and is caught at 730.
Pass(next) ==
    /\ IF luids = 0
         THEN UNCHANGED <<inbox, client, alive, errPending>>
         ELSE IF Usable
           THEN /\ inbox' = inbox - luids
                /\ client' = TRUE
                /\ alive' = TRUE
                /\ UNCHANGED errPending
           ELSE /\ errPending' = TRUE
                /\ UNCHANGED <<inbox, client, alive>>
    /\ luids' = 0
    /\ lpc' = next
    /\ UNCHANGED <<net, has_new_mail>>
    /\ UNCHANGED nonLoopVars

\* main.py 783-788: the listing before the loop.
loop_first_listing ==
    /\ lpc = "first_list"
    /\ Search("first_process")

\* main.py 791: the pass before the loop.
loop_first_process_uids ==
    /\ lpc = "first_process"
    /\ Pass("wait")

\* main.py 798-801 with imap_client.py 127-167: idle_wait returns True on a
\* notification, False on a timeout, on a server without IDLE, on a failed
\* connect and on any exception; it never sleeps.
loop_idle_wait ==
    /\ lpc = "wait"
    /\ IF Usable
         THEN /\ has_new_mail' \in {FALSE} \cup (IF inbox > 0 THEN {TRUE} ELSE {})
              /\ client' = TRUE
              /\ alive' = TRUE
              /\ UNCHANGED errPending
         ELSE /\ has_new_mail' = FALSE
              /\ errPending' = TRUE
              /\ UNCHANGED <<client, alive>>
    /\ lpc' = "list"
    /\ UNCHANGED <<net, luids, inbox>>
    /\ UNCHANGED nonLoopVars

\* main.py 801 and 813-814: the call at 801 passes pollintervall, which the
\* idle_wait of imap_client.py 127 does not accept; the call can raise
\* before any mailbox operation, and the handler at 813 takes over.
loop_idle_wait_raises ==
    /\ lpc = "wait"
    /\ lpc' = "backoff"
    /\ UNCHANGED <<net, client, alive, has_new_mail, luids, inbox, errPending>>
    /\ UNCHANGED nonLoopVars

\* The same step listing only after a notification: after a timeout the loop
\* goes on without a listing.
loop_listing_on_notification ==
    /\ lpc = "list"
    /\ IF has_new_mail
         THEN Search("pause")
         ELSE /\ lpc' = "pause"
              /\ UNCHANGED <<net, client, alive, has_new_mail, luids, inbox,
                             errPending>>
              /\ UNCHANGED nonLoopVars

\* main.py 810-811
loop_listing ==
    /\ lpc = "list"
    /\ Search("pause")

\* main.py 812: time.sleep(1)
loop_pause ==
    /\ lpc = "pause"
    /\ lpc' = "process"
    /\ UNCHANGED <<net, client, alive, has_new_mail, luids, inbox, errPending>>
    /\ UNCHANGED nonLoopVars

\* main.py 815: time.sleep(pollinterval_conf)
loop_backoff ==
    /\ lpc = "backoff"
    /\ errPending' = FALSE
    /\ lpc' = "fallback"
    /\ UNCHANGED <<net, client, alive, has_new_mail, luids, inbox>>
    /\ UNCHANGED nonLoopVars

\* main.py 816-820: the fallback listing; get_all_messages_uids catches its
\* errors, so the continue at 820 is not taken.
loop_fallback_listing ==
    /\ lpc = "fallback"
    /\ Search("process")

\* main.py 823
loop_process_uids ==
    /\ lpc = "process"
    /\ Pass("check")

\* main.py 31-43: /proc/uptime, or one second more than the threshold when
\* it cannot be read.
get_system_uptime_seconds(readable, up) ==
    IF readable THEN up ELSE REBOOT_MIN_UPTIME_SECONDS + 1

\* Uptimes of the system at a check, around the threshold.
Uptimes ==
    {0, REBOOT_MIN_UPTIME_SECONDS - 1, REBOOT_MIN_UPTIME_SECONDS,
     REBOOT_MIN_UPTIME_SECONDS + 1}

\* The check with the uptime threshold left out.
loop_connectivity_check_without_threshold ==
    /\ lpc = "check"
    /\ \E online \in BOOLEAN, readable \in BOOLEAN, up \in Uptimes :
          /\ checked' = [online |-> online, readable |-> readable, up |-> up]
          /\ reboot_requested' = ~online
    /\ lpc' = "wait"
    /\ UNCHANGED <<net, client, alive, has_new_mail, luids, inbox, errPending>>
    /\ UNCHANGED <<pipeVars, fPath, storeVars, procVars, prev_run, buttonVars,
                   replyVars, folderVars, settingsVars>>

\* main.py 826-839: the connectivity check (119-160: a nameserver answers on
\* port 53); perform_reboot (46-55) starts systemctl reboot --no-block and
\* returns; the loop goes on in every case.
loop_connectivity_check ==
    /\ lpc = "check"
    /\ \E online \in BOOLEAN, readable \in BOOLEAN, up \in Uptimes :
          /\ checked' = [online |-> online, readable |-> readable, up |-> up]
          /\ reboot_requested' =
                 (/\ ~online
                  /\ ~(get_system_uptime_seconds(readable, up)
                          < REBOOT_MIN_UPTIME_SECONDS))
    /\ lpc' = "wait"
    /\ UNCHANGED <<net, client, alive, has_new_mail, luids, inbox, errPending>>
    /\ UNCHANGED <<pipeVars, fPath, storeVars, procVars, prev_run, buttonVars,
                   replyVars, folderVars, settingsVars>>

\* The connection to the server drops; the wrapper keeps its client object.
Drop ==
    /\ net
    /\ net' = FALSE
    /\ alive' = FALSE
    /\ UNCHANGED <<lpc, client, has_new_mail, luids, inbox, errPending>>
    /\ UNCHANGED nonLoopVars

\* The server can be reached again; an old connection stays dead.
Reachable ==
    /\ ~net
    /\ net' = TRUE
    /\ UNCHANGED <<lpc, client, alive, has_new_mail, luids, inbox, errPending>>
    /\ UNCHANGED nonLoopVars

\* A message is delivered to the inbox.
Deliver ==
    /\ inbox < MaxMail
    /\ inbox' = inbox + 1
    /\ UNCHANGED <<lpc, net, client, alive, has_new_mail, luids, errPending>>
    /\ UNCHANGED nonLoopVars

\* main.py 777-779 has returned True: the wrapper holds a working connection.
LoopIdle ==
    /\ lpc = "first_list"
    /\ net = TRUE
    /\ client = TRUE
    /\ alive = TRUE
    /\ has_new_mail = FALSE
    /\ luids = 0
    /\ inbox = 0
    /\ errPending = FALSE

LoopNext ==
    \/ loop_first_listing
    \/ loop_first_process_uids
    \/ loop_idle_wait
    \/ loop_idle_wait_raises
    \/ loop_listing
    \/ loop_pause
    \/ loop_backoff
    \/ loop_fallback_listing
    \/ loop_process_uids
    \/ loop_connectivity_check
    \/ Drop
    \/ Reachable
    \/ Deliver

\* =========================================================================
\* SpecButton: the display shared by the pipeline thread (display_image
\* called at main.py 723) and the button thread (_monitor_buttons_thread).
\* =========================================================================

\* main.py 357-367: a thread at one of these positions is inside
\* inky.set_image or inky.show.
Writing == {"set_image", "show"}

NoEvent == [label |-> "none", gap |-> DEBOUNCE_SECONDS, age |-> 0, accepted |-> FALSE]

\* main.py 503-509: the press handle_button is called with, and its outcome.
Handled(e, ok) == [label |-> e.label, gap |-> e.gap, age |-> e.age, accepted |-> ok]

Later(t) == IF t + Tick > DEBOUNCE_SECONDS THEN DEBOUNCE_SECONDS ELSE t + Tick

\* main.py 720-723 with 330-357: the pipeline has stored a new image and
\* calls display_image; inky.set_image begins.
pipe_display_image ==
    /\ dpc = "idle"
    /\ nextImg < MaxImages
    /\ nextImg' = nextImg + 1
    /\ pimg' = nextImg + 1
    /\ dpc' = "set_image"
    /\ UNCHANGED <<bpc, bimg, queue, event, since, sinceArr, orientation, wrote,
                   current_image, current_image_path, panel>>
    /\ UNCHANGED nonButtonVars

\* main.py 357-367: set_image has returned, inky.show begins.
pipe_set_image_done ==
    /\ dpc = "set_image"
    /\ dpc' = "show"
    /\ UNCHANGED <<pimg, nextImg, bpc, bimg, queue, event, since, sinceArr,
                   orientation, wrote, current_image, current_image_path, panel>>
    /\ UNCHANGED nonButtonVars

\* main.py 367-379: show returns and current_image is set (379), or show
\* raises and display_image returns False.
pipe_show_done ==
    /\ dpc = "show"
    /\ \/ /\ panel' = pimg
          /\ current_image' = pimg
          /\ dpc' = "track_path"
       \/ /\ dpc' = "idle"
          /\ UNCHANGED <<panel, current_image>>
    /\ UNCHANGED <<pimg, nextImg, bpc, bimg, queue, event, since, sinceArr,
                   orientation, wrote, current_image_path>>
    /\ UNCHANGED nonButtonVars

\* main.py 380-383: current_image_path = image_path; return True
pipe_track_path ==
    /\ dpc = "track_path"
    /\ current_image_path' = pimg
    /\ dpc' = "idle"
    /\ UNCHANGED <<pimg, nextImg, bpc, bimg, queue, event, since, sinceArr,
                   orientation, wrote, current_image, panel>>
    /\ UNCHANGED nonButtonVars

\* A button is pressed: the kernel queues a falling-edge event.
Press ==
    /\ Len(queue) < MaxQueue
    /\ \E l \in {"A", "B"} :
         queue' = Append(queue, [label |-> l, gap |-> sinceArr, age |-> 0])
    /\ UNCHANGED <<dpc, pimg, nextImg, bpc, bimg, event, since, sinceArr,
                   orientation, wrote, current_image, current_image_path, panel>>
    /\ UNCHANGED nonButtonVars

\* Tick seconds pass, while the button thread waits for an event or is
\* inside set_image / show. It polls every 10 ms (main.py 518-521), and the
\* statements of handle_button outside the display calls take no time at
\* this scale.
Elapse ==
    /\ bpc \in Writing \/ (bpc = "poll" /\ queue = <<>>)
    /\ since' = Later(since)
    /\ sinceArr' = Later(sinceArr)
    /\ queue' = [i \in 1..Len(queue) |-> [queue[i] EXCEPT !.age = Later(@)]]
    /\ UNCHANGED <<dpc, pimg, nextImg, bpc, bimg, event, orientation, wrote,
                   current_image, current_image_path, panel>>
    /\ UNCHANGED nonButtonVars

\* main.py 503-507: now - last_press_time < DEBOUNCE_SECONDS: return
handle_button_ignored ==
    /\ bpc = "poll"
    /\ queue # <<>>
    /\ since < DEBOUNCE_SECONDS
    /\ event' = Handled(Head(queue), FALSE)
    /\ queue' = Tail(queue)
    /\ UNCHANGED <<dpc, pimg, nextImg, bpc, bimg, since, sinceArr,
                   orientation, wrote, current_image, current_image_path, panel>>
    /\ UNCHANGED nonButtonVars

\* main.py 503-514: the press is accepted; last_press_time = now, taken when
\* the event is handled; label A goes on to toggle_orientation_and_apply.
handle_button_accepted ==
    /\ bpc = "poll"
    /\ queue # <<>>
    /\ ~(since < DEBOUNCE_SECONDS)
    /\ event' = Handled(Head(queue), TRUE)
    /\ queue' = Tail(queue)
    /\ since' = 0
    /\ sinceArr' = Head(queue).age
    /\ bpc' = IF Head(queue).label = "A" THEN "toggle" ELSE "poll"
    /\ UNCHANGED <<dpc, pimg, nextImg, bimg, orientation, wrote,
                   current_image, current_image_path, panel>>
    /\ UNCHANGED nonButtonVars

\* Values the ORIENTATION line of the settings file can hold: the two the
\* program writes, the empty value, and any other text.
Orientations == {"landscape", "portrait", "", "other"}

\* main.py 424: "portrait" if (old or "landscape") == "landscape"
\* else "landscape"
Toggled(old) ==
    IF (IF old = "" THEN "landscape" ELSE old) = "landscape"
      THEN "portrait"
      ELSE "landscape"

\* The toggle with every value but "portrait" taken for landscape.
toggle_orientation_and_apply_other_to_portrait ==
    /\ bpc = "toggle"
    /\ \E ok \in BOOLEAN :
         /\ wrote' = ok
         /\ orientation' = IF ok /\ orientation = "portrait" THEN "landscape"
                           ELSE IF ok THEN "portrait"
                           ELSE orientation
    /\ bpc' = "apply"
    /\ UNCHANGED <<dpc, pimg, nextImg, bimg, queue, event, since, sinceArr,
                   current_image, current_image_path, panel>>
    /\ UNCHANGED nonButtonVars

\* main.py 423-426 with config.py 224-252: the setting is read, flipped and
\* stored, or the write fails and is only reported on stdout.
toggle_orientation_and_apply ==
    /\ bpc = "toggle"
    /\ \E ok \in BOOLEAN :
         /\ wrote' = ok
         /\ orientation' = IF ok THEN Toggled(orientation) ELSE orientation
    /\ bpc' = "apply"
    /\ UNCHANGED <<dpc, pimg, nextImg, bimg, queue, event, since, sinceArr,
                   current_image, current_image_path, panel>>
    /\ UNCHANGED nonButtonVars

\* main.py 428-456: with a tracked image (430) whose path can be prepared,
\* or else a latest file (442) that can be prepared, display_image is called
\* and inky.set_image begins; otherwise the function returns.
toggle_reapply ==
    /\ bpc = "apply"
    /\ LET target == IF current_image # 0 /\ current_image_path # 0
                       THEN current_image_path
                       ELSE nextImg
       IN  \/ /\ target # 0
              /\ bimg' = target
              /\ bpc' = "set_image"
           \/ /\ bpc' = "poll"
              /\ UNCHANGED bimg
    /\ wrote' = FALSE
    /\ UNCHANGED <<dpc, pimg, nextImg, queue, event, since, sinceArr,
                   orientation, current_image, current_image_path, panel>>
    /\ UNCHANGED nonButtonVars

\* main.py 357-367, called from 434 or 448
button_set_image_done ==
    /\ bpc = "set_image"
    /\ bpc' = "show"
    /\ UNCHANGED <<dpc, pimg, nextImg, bimg, queue, event, since, sinceArr,
                   orientation, wrote, current_image, current_image_path, panel>>
    /\ UNCHANGED nonButtonVars

\* main.py 367-379, called from 434 or 448
button_show_done ==
    /\ bpc = "show"
    /\ \/ /\ panel' = bimg
          /\ current_image' = bimg
          /\ bpc' = "track_path"
       \/ /\ bpc' = "poll"
          /\ UNCHANGED <<panel, current_image>>
    /\ UNCHANGED <<dpc, pimg, nextImg, bimg, queue, event, since, sinceArr,
                   orientation, wrote, current_image_path>>
    /\ UNCHANGED nonButtonVars

\* main.py 380-383, called from 434 or 448
button_track_path ==
    /\ bpc = "track_path"
    /\ current_image_path' = bimg
    /\ bpc' = "poll"
    /\ UNCHANGED <<dpc, pimg, nextImg, bimg, queue, event, since, sinceArr,
                   orientation, wrote, current_image, panel>>
    /\ UNCHANGED nonButtonVars

\* main.py 389-390 and 496: nothing tracked, last_press_time = 0 against a
\* time.time() far above DEBOUNCE_SECONDS.
ButtonIdle ==
    /\ dpc = "idle"
    /\ pimg = 0
    /\ nextImg = 0
    /\ bpc = "poll"
    /\ bimg = 0
    /\ queue = <<>>
    /\ event = NoEvent
    /\ since = DEBOUNCE_SECONDS
    /\ sinceArr = DEBOUNCE_SECONDS
    /\ orientation = "landscape"
    /\ wrote = FALSE
    /\ current_image = 0
    /\ current_image_path = 0
    /\ panel = 0

ButtonNext ==
    \/ pipe_display_image
    \/ pipe_set_image_done
    \/ pipe_show_done
    \/ pipe_track_path
    \/ Press
    \/ Elapse
    \/ handle_button_ignored
    \/ handle_button_accepted
    \/ toggle_orientation_and_apply
    \/ toggle_reapply
    \/ button_set_image_done
    \/ button_show_done
    \/ button_track_path

\* main.py 485-521: the button thread.
ToggleNext ==
    \/ Press
    \/ Elapse
    \/ handle_button_ignored
    \/ handle_button_accepted
    \/ toggle_orientation_and_apply
    \/ toggle_reapply
    \/ button_set_image_done
    \/ button_show_done
    \/ button_track_path

\* =========================================================================
\* SpecReply: the failure reply, main.py 694-704 with smtp_sender.py.
\* =========================================================================

\* smtp_sender.py 18-24, each text as its sequence of words.
ERROR_MESSAGES ==
    [k \in {"attachment_too_large", "no_valid_image", "no_attachments",
            "invalid_mime_type", "pil_verification_failed"} |->
        CASE k = "attachment_too_large" ->
               <<"The", "attachment", "was", "too", "large.", "Please", "send",
                 "an", "image", "smaller", "than", "20", "MB.">>
          [] k = "no_valid_image" ->
               <<"No", "valid", "image", "was", "found", "in", "your", "email.",
                 "Please", "attach", "a", "JPEG,", "PNG,", "GIF,", "or", "BMP",
                 "image.">>
          [] k = "no_attachments" ->
               <<"Your", "email", "did", "not", "contain", "any", "attachments.",
                 "Please", "attach", "an", "image", "file.">>
          [] k = "invalid_mime_type" ->
               <<"The", "file", "type", "is", "not", "supported.", "Please",
                 "send", "a", "JPEG,", "PNG,", "GIF,", "or", "BMP", "image.">>
          [] k = "pil_verification_failed" ->
               <<"The", "image", "file", "appears", "to", "be", "corrupted",
                 "or", "invalid.", "Please", "try", "a", "different", "image.">>]

\* smtp_sender.py 27-36: ERROR_MESSAGES.get(error_code, f"An error occurred: {error_code}")
get_user_friendly_error(code) ==
    IF code \in DOMAIN ERROR_MESSAGES
      THEN ERROR_MESSAGES[code]
      ELSE <<"An", "error", "occurred:", code>>

\* The text holds the word.
Contains(text, word) == \E i \in 1..Len(text) : text[i] = word

\* main.py 695-696
reply_get_user_friendly_error ==
    /\ rpc = "start"
    /\ error_message' = get_user_friendly_error(error_code)
    /\ rpc' = "mapped"
    /\ UNCHANGED <<error_code, device_name, template, body, html>>
    /\ UNCHANGED nonReplyVars

\* main.py 697 with smtp_sender.py 39-61: the template is read and formatted
\* with error_message and device_name; a missing file or a missing variable
\* raises, and the handler at main.py 703 ends the step.
reply_render_template ==
    /\ rpc = "mapped"
    /\ IF template = "present"
         THEN /\ html' = <<"email_failure.html", device_name>> \o error_message
              /\ rpc' = "rendered"
         ELSE /\ rpc' = "failed"
              /\ UNCHANGED html
    /\ UNCHANGED <<error_code, error_message, device_name, template, body>>
    /\ UNCHANGED nonReplyVars

\* main.py 698-704 with smtp_sender.py 64-133: the plain body is
\* f"Reason: {error_message}"; the SMTP session may raise.
reply_send_reply ==
    /\ rpc = "rendered"
    /\ body' = <<"Reason:">> \o error_message
    /\ rpc' \in {"sent", "failed"}
    /\ UNCHANGED <<error_code, error_message, device_name, template, html>>
    /\ UNCHANGED nonReplyVars

\* No reply is being composed.
ReplyIdle ==
    /\ rpc = "start"
    /\ error_code = "no_valid_image"
    /\ error_message = <<>>
    /\ device_name = "Mein Bilderrahmen"
    /\ template = "present"
    /\ body = <<>>
    /\ html = <<>>

ReplyNext ==
    \/ reply_get_user_friendly_error
    \/ reply_render_template
    \/ reply_send_reply

\* =========================================================================
\* SpecFolder: the folder selected on the IMAP session while the pipeline
\* lists, fetches, deletes and empties the trash (imap_client.py 71-125).
\* A SELECT that fails leaves no folder selected (RFC 3501, 6.3.1); SEARCH,
\* FETCH, STORE and EXPUNGE fail when no folder is selected.
\* =========================================================================

\* imap_client.py 71-87 from main.py 784/810/817: search ALL in the selected
\* folder; with no folder selected the search raises and [] is returned.
folder_get_all_messages_uids ==
    /\ tpc = "list"
    /\ IF selected = "inbox" /\ nInbox > 0
         THEN /\ listedFrom' = selected
              /\ pending' = nInbox
              /\ tpc' = "fetch"
         ELSE /\ listedFrom' = "none"
              /\ pending' = 0
              /\ tpc' = "list"
    /\ UNCHANGED <<selected, nInbox, handled>>
    /\ UNCHANGED nonFolderVars

\* imap_client.py 89-95 from main.py 620: fetch of the next listed
\* identifier from the selected folder; raising ends the iteration (730).
folder_fetch_message_bytes ==
    /\ tpc = "fetch"
    /\ IF selected = "inbox"
         THEN /\ tpc' = "delete"
              /\ UNCHANGED pending
         ELSE /\ pending' = pending - 1
              /\ tpc' = IF pending > 1 THEN "fetch" ELSE "list"
    /\ UNCHANGED <<selected, listedFrom, nInbox, handled>>
    /\ UNCHANGED nonFolderVars

\* imap_client.py 97-105 from main.py 709: the message is flagged and
\* expunged in the selected folder; a failure is logged.
folder_delete_message ==
    /\ tpc = "delete"
    /\ \/ /\ selected = "inbox"
          /\ nInbox' = nInbox - 1
          /\ handled' = handled + 1
       \/ UNCHANGED <<nInbox, handled>>
    /\ tpc' = "select_trash"
    /\ UNCHANGED <<selected, listedFrom, pending>>
    /\ UNCHANGED nonFolderVars

\* imap_client.py 115-116: select_folder(f"INBOX.{trash}"); when it raises,
\* the handler at 119 logs and the finally at 120 follows.
folder_select_trash ==
    /\ tpc = "select_trash"
    /\ \/ /\ selected' = "trash"
          /\ tpc' = "expunge"
       \/ /\ selected' = "none"
          /\ tpc' = "reselect"
    /\ UNCHANGED <<listedFrom, nInbox, pending, handled>>
    /\ UNCHANGED nonFolderVars

\* imap_client.py 117-119: expunge in the trash folder, or it raises.
folder_expunge_trash ==
    /\ tpc = "expunge"
    /\ tpc' = "reselect"
    /\ UNCHANGED <<selected, listedFrom, nInbox, pending, handled>>
    /\ UNCHANGED nonFolderVars

\* imap_client.py 120-125: finally select_folder(self.mailbox); when it
\* raises, the failure is logged at debug level and empty_trash returns to
\* the loop over the listed identifiers (main.py 612).
folder_reselect_inbox ==
    /\ tpc = "reselect"
    /\ selected' \in {"inbox", "none"}
    /\ pending' = pending - 1
    /\ tpc' = IF pending > 1 THEN "fetch" ELSE "list"
    /\ UNCHANGED <<listedFrom, nInbox, handled>>
    /\ UNCHANGED nonFolderVars

\* A message arrives in the inbox.
FolderDeliver ==
    /\ nInbox + handled < MaxFolderMail
    /\ nInbox' = nInbox + 1
    /\ UNCHANGED <<tpc, selected, listedFrom, pending, handled>>
    /\ UNCHANGED nonFolderVars

FolderNext ==
    \/ folder_get_all_messages_uids
    \/ folder_fetch_message_bytes
    \/ folder_delete_message
    \/ folder_select_trash
    \/ folder_expunge_trash
    \/ folder_reselect_inbox
    \/ FolderDeliver

\* =========================================================================
\* SpecSettings: the settings file read by the pipeline thread
\* (config.read_setting, main.py 301, 311, 627-638) while the button thread
\* rewrites it (config.write_setting, main.py 425).
\* =========================================================================

\* A line NAME="value" of the file; cut: the file ends inside the value.
Line(k, v) == [key |-> k, val |-> v, cut |-> FALSE]

Matching(file, name) == {i \in 1..Len(file) : file[i].key = name}

\* config.py 201-221: the value of the first line that starts with name=,
\* quotes stripped when the value starts and ends with one; default when no
\* line matches or the file cannot be read.
read_setting(file, name, default) ==
    IF Matching(file, name) = {}
      THEN [name |-> name, val |-> default, found |-> FALSE, cut |-> FALSE]
      ELSE LET i == CHOOSE j \in Matching(file, name) :
                       \A h \in Matching(file, name) : j <= h
           IN  [name |-> name, val |-> file[i].val, found |-> TRUE,
                cut |-> file[i].cut]

\* main.py 423-425 with config.py 229-247: the toggle reads ORIENTATION and
\* write_setting reads the lines of the file and builds out_lines, every
\* line of the key replaced, or one line appended.
write_setting_build ==
    /\ wpc = "idle"
    /\ LET new == Line("ORIENTATION",
                      Toggled(read_setting(cfg, "ORIENTATION", "landscape").val))
       IN  out_lines' =
              IF Matching(cfg, "ORIENTATION") = {}
                THEN Append(cfg, new)
                ELSE [i \in 1..Len(cfg) |->
                        IF cfg[i].key = "ORIENTATION" THEN new ELSE cfg[i]]
    /\ wpc' = "open"
    /\ UNCHANGED <<cfg, got>>
    /\ UNCHANGED nonSettingsVars

\* config.py 249: open(path, "w") truncates the file; when it raises, the
\* failure is printed (250-252) and the file is as before.
write_setting_open ==
    /\ wpc = "open"
    /\ \/ /\ cfg' = <<>>
          /\ wpc' = "write"
          /\ UNCHANGED out_lines
       \/ /\ wpc' = "idle"
          /\ out_lines' = <<>>
          /\ UNCHANGED cfg
    /\ UNCHANGED got
    /\ UNCHANGED nonSettingsVars

\* config.py 250: a buffer of f.writelines reaches the file before the rest:
\* n whole lines and the beginning of the next one.
write_setting_flush_part ==
    /\ wpc = "write"
    /\ \E n \in 0..(Len(out_lines) - 1) :
         cfg' = Append(SubSeq(out_lines, 1, n),
                       [out_lines[n + 1] EXCEPT !.cut = TRUE])
    /\ wpc' = "rest"
    /\ UNCHANGED <<out_lines, got>>
    /\ UNCHANGED nonSettingsVars

\* config.py 249-250: the file is closed with every line written.
write_setting_close ==
    /\ wpc \in {"write", "rest"}
    /\ cfg' = out_lines
    /\ out_lines' = <<>>
    /\ wpc' = "idle"
    /\ UNCHANGED got
    /\ UNCHANGED nonSettingsVars

\* main.py 301, 311, 635: the pipeline thread reads a setting.
pipe_read_setting ==
    /\ \/ got' = read_setting(cfg, "DATA_DIR", "/mnt/usb/data")
       \/ got' = read_setting(cfg, "ORIENTATION", "landscape")
    /\ UNCHANGED <<cfg, wpc, out_lines>>
    /\ UNCHANGED nonSettingsVars

NoRead == [name |-> "none", val |-> "", found |-> FALSE, cut |-> FALSE]

\* imap_client.py 55-58: connect() has selected the inbox; no connectivity
\* check yet; the settings file of an installation, DATA_DIR and ORIENTATION
\* set, with no write_setting under way.
MoreIdle ==
    /\ tpc = "list"
    /\ selected = "inbox"
    /\ listedFrom = "none"
    /\ nInbox = 0
    /\ pending = 0
    /\ handled = 0
    /\ checked = [online |-> TRUE, readable |-> TRUE, up |-> 0]
    /\ reboot_requested = FALSE
    /\ cfg = <<Line("DATA_DIR", "/data"), Line("ORIENTATION", "landscape")>>
    /\ wpc = "idle"
    /\ out_lines = <<>>
    /\ got = NoRead

SettingsNext ==
    \/ write_setting_build
    \/ write_setting_open
    \/ write_setting_flush_part
    \/ write_setting_close
    \/ pipe_read_setting

\* =========================================================================
\* Initial states and specifications
\* =========================================================================

PipeInit ==
    /\ pc = "start"
    /\ last_uid = 0
    /\ mailbox = {}
    /\ nextUid = 0
    /\ uids = <<>>
    /\ uid = 0
    /\ raw = FALSE
    /\ res = "none"
    /\ prepared = FALSE
    /\ preview = FALSE
    /\ nReplies = 0
    /\ replyKind = "none"
    /\ renderFailed = FALSE
    /\ internalError = FALSE
    /\ fx = {}
    /\ msg = "none"
    /\ paths = 0
    /\ image_path = 0
    /\ failed = {}
    /\ cursorAtCheck = 0
    /\ fetchFailed = {}
    /\ displayed = 0
    /\ interrupted = FALSE
    /\ restarts = 0

vars == <<pipeVars, fPath, storeVars, procVars, prev_run, auxVars>>

\* The cursor file at the first start: missing, or damaged from outside
\* (zero-length or cut short).
Init ==
    /\ PipeInit
    /\ fPath \in {Absent, EmptyFile, PartialFile}
    /\ StoreInit
    /\ ProcIdle
    /\ parts = <<>>
    /\ LoopIdle
    /\ ButtonIdle
    /\ ReplyIdle
    /\ MoreIdle

\* The extractor is given any message of up to MaxParts parts.
ProcInit ==
    /\ PipeInit
    /\ fPath = Absent
    /\ StoreInit
    /\ ProcIdle
    /\ parts \in Messages
    /\ LoopIdle
    /\ ButtonIdle
    /\ ReplyIdle
    /\ MoreIdle

Next ==
    \/ get_last_uid
    \/ connect
    \/ get_all_messages_uids
    \/ process_uids_return
    \/ process_uids_skip
    \/ process_uids_enter
    \/ fetch_message_bytes_ok
    \/ fetch_message_bytes_raises
    \/ process_message_bytes_returns
    \/ process_message_bytes_raises
    \/ prepare_image_for_display
    \/ notify_send_reply
    \/ notify_render_raises
    \/ delete_message
    \/ empty_trash
    \/ display_image
    \/ advance_last_uid
    \/ set_last_uid_ok
    \/ set_last_uid_raises
    \/ idle_wait
    \/ Arrive
    \/ Restart

Spec == Init /\ [][Next]_vars

SpecStore == Init /\ [][StoreNext]_vars

SpecProc == ProcInit /\ [][ProcNext]_vars

SpecRepeat == ProcInit /\ [][RepeatNext]_vars

\* The poll loop and the two threads start with no cursor file.
AuxInit ==
    /\ Init
    /\ fPath = Absent

SpecLoop == AuxInit /\ [][LoopNext]_vars

\* The main thread keeps running: every call of the loop returns (idle_check
\* has its timeout, main.py 801 and imap_client.py 147) and the sleeps end.
SpecLoopFair ==
    /\ AuxInit
    /\ [][LoopNext]_vars
    /\ WF_vars(\/ loop_first_listing
               \/ loop_first_process_uids
               \/ loop_idle_wait
               \/ loop_idle_wait_raises
               \/ loop_listing
               \/ loop_pause
               \/ loop_backoff
               \/ loop_fallback_listing
               \/ loop_process_uids
               \/ loop_connectivity_check)

SpecButton == AuxInit /\ [][ButtonNext]_vars

\* The button thread alone: the settings file holds any ORIENTATION value
\* and DATA_DIR holds the images stored by earlier passes.
ToggleInit ==
    /\ PipeInit
    /\ fPath = Absent
    /\ StoreInit
    /\ ProcIdle
    /\ parts = <<>>
    /\ LoopIdle
    /\ dpc = "idle"
    /\ pimg = 0
    /\ nextImg \in 0..MaxImages
    /\ bpc = "poll"
    /\ bimg = 0
    /\ queue = <<>>
    /\ event = NoEvent
    /\ since = DEBOUNCE_SECONDS
    /\ sinceArr = DEBOUNCE_SECONDS
    /\ orientation \in Orientations
    /\ wrote = FALSE
    /\ current_image = 0
    /\ current_image_path = 0
    /\ panel = 0
    /\ ReplyIdle
    /\ MoreIdle

SpecToggle == ToggleInit /\ [][ToggleNext]_vars

\* The two threads start with a settings file that has DATA_DIR set and
\* ORIENTATION before it, after it or not set.
SettingsInit ==
    /\ PipeInit
    /\ fPath = Absent
    /\ StoreInit
    /\ ProcIdle
    /\ parts = <<>>
    /\ LoopIdle
    /\ ButtonIdle
    /\ ReplyIdle
    /\ tpc = "list"
    /\ selected = "inbox"
    /\ listedFrom = "none"
    /\ nInbox = 0
    /\ pending = 0
    /\ handled = 0
    /\ checked = [online |-> TRUE, readable |-> TRUE, up |-> 0]
    /\ reboot_requested = FALSE
    /\ cfg \in {<<Line("DATA_DIR", "/data")>>} \cup
               {<<Line("DATA_DIR", "/data"), Line("ORIENTATION", o)>> :
                   o \in Orientations} \cup
               {<<Line("ORIENTATION", o), Line("DATA_DIR", "/data")>> :
                   o \in Orientations}
    /\ wpc = "idle"
    /\ out_lines = <<>>
    /\ got = NoRead

SpecSettings == SettingsInit /\ [][SettingsNext]_vars

SpecFolder == AuxInit /\ [][FolderNext]_vars

\* The failure reply is composed for any reason code, device name and state
\* of the template file.
ReplyInit ==
    /\ PipeInit
    /\ fPath = Absent
    /\ StoreInit
    /\ ProcIdle
    /\ parts = <<>>
    /\ LoopIdle
    /\ ButtonIdle
    /\ MoreIdle
    /\ rpc = "start"
    /\ error_code \in {"attachment_too_large", "no_valid_image", "no_attachments",
                       "invalid_mime_type", "image_verification_failed",
                       "pil_verification_failed"}
    /\ error_message = <<>>
    /\ device_name \in {"Mein Bilderrahmen", "Frame"}
    /\ template \in {"present", "missing", "missing_variable"}
    /\ body = <<>>
    /\ html = <<>>

SpecReply == ReplyInit /\ [][ReplyNext]_vars

\* =========================================================================
\* Properties of Spec
\* =========================================================================

\* The positions of the loop body of process_uids, lines 619-729.
MsgSteps == {"fetch", "extract", "prepare", "notify", "delete", "trash",
             "display", "advance", "persist"}

\* The cursor a start of the process would read from the file.
Persisted == get_last_uid_or_0(fPath)

\* C1: an identifier of the batch that is at or below the cursor when the
\* loop reaches it causes no side effect: no fetch, extraction, reply,
\* delete, display or cursor write is attempted for it, and the loop body is
\* never entered for it.
C1_NoSideEffectAtOrBelowCursor ==
    (uid # 0 /\ uid <= cursorAtCheck) => (fx = {} /\ pc \notin MsgSteps)

\* A message that stayed in the inbox (its delete failed) was listed again
\* and passed over.
C1_Witness ==
    /\ pc = "loop"
    /\ uid \in mailbox
    /\ uid <= cursorAtCheck

\* C2 (as claimed): when the loop moves on from a message whose fetch
\* succeeded, the cursor is at least the message's identifier.
C2_CursorAdvancedAfterFetch ==
    (pc = "loop" /\ raw) => last_uid >= uid

\* C3 (as claimed): when the next batch starts, the cursor is still below
\* every identifier whose fetch failed, so the next batch fetches it again.
C3_FailedFetchRetried ==
    (pc \in {"wait", "list"}) => \A i \in fetchFailed : last_uid < i

\* C4 (as claimed): an internal error inside process_message_bytes still
\* gives the pipeline a failure result, and a failure reply is sent for the
\* message.
C4_InternalErrorYieldsFailureReply ==
    (pc = "loop" /\ internalError) =>
        (res \in ExtractReturns \ {"ok"} /\ replyKind = "failure")

\* C5 (as claimed): a message processed to cursor-advance has had exactly one
\* send_reply call.
C5_ExactlyOneReply ==
    ("cursor" \in fx) => nReplies = 1

\* C5 (amended): a message processed to cursor-advance has had at most one
\* send_reply call, and exactly one unless render_template raised, in which
\* case it has had none.
C5_OneReplyUnlessRenderFails ==
    ("cursor" \in fx) =>
        /\ nReplies <= 1
        /\ (nReplies = 0) <=> renderFailed

\* Messages reached the cursor-advance with a reply on each of the three
\* paths; this one is the preparation-failure path.
C5_Witness ==
    /\ "cursor" \in fx
    /\ nReplies = 1
    /\ replyKind = "prep_failure"

\* C6 (as claimed): over batches, restarts and re-listings neither the
\* in-memory cursor nor the persisted cursor ever decreases.
C6_CursorNeverRegresses ==
    [][last_uid' >= last_uid /\ Persisted' >= Persisted]_vars

\* C6 (amended): the persisted cursor never decreases; the in-memory cursor
\* never decreases within one process run, is re-read from the persisted
\* cursor at a start, and is never below the persisted cursor; line 728
\* leaves it equal to max(previous cursor, uid).
C6_CursorMonotoneWithinRun ==
    [][ /\ Persisted' >= Persisted
        /\ (pc # "start" => last_uid' >= last_uid)
        /\ (pc = "start" /\ pc' = "connect" => last_uid' = Persisted)
        /\ (pc' \notin {"start", "died"} => Persisted' <= last_uid')
        /\ (pc = "advance" /\ pc' = "persist" =>
              last_uid' = IF cursorAtCheck >= uid THEN cursorAtCheck ELSE uid)
      ]_vars

\* After a restart that read a cursor written earlier, a further message has
\* reached line 728.
C6_Witness ==
    /\ restarts > 0
    /\ Persisted > 0
    /\ pc = "persist"
    /\ last_uid > Persisted

\* C8 (as claimed): a missing or damaged cursor file reads as cursor 0 and
\* the start of the process does not fail because of it.
C8_UnreadableCursorIsZero ==
    /\ pc # "died"
    /\ (pc = "connect" /\ fPath.k # "rec" => last_uid = 0)

\* C15 (as claimed): when the loop moves on from a fetched message that holds
\* exactly one valid image and whose identifier was above the cursor, one
\* file was stored, one reply was sent and it was the success reply, and the
\* cursor equals the identifier.
C15_SingleImageMessage ==
    (pc = "loop" /\ msg = "one_image" /\ uid > cursorAtCheck) =>
        /\ paths = 1
        /\ nReplies = 1
        /\ replyKind = "success"
        /\ last_uid = uid

\* C16: within a batch the loop takes identifiers in strictly ascending
\* order, whatever order the server listed them in, and it takes the next
\* one only from the head of the loop, when the previous one is finished.
C16_AscendingSequential ==
    [][(uid' # uid /\ uid' # 0) =>
          /\ pc = "loop"
          /\ uid' > uid
          /\ \A i \in 1..Len(uids') : uids'[i] > uid'
      ]_vars

\* The second message of a batch of three is being processed.
C16_Witness ==
    /\ pc \in MsgSteps
    /\ uid = 2
    /\ cursorAtCheck = 1
    /\ uids # <<>>

\* The steps of one message in the order of the loop body.
StepOrder == <<"fetch", "extract", "prepare", "reply", "delete", "trash",
               "display", "cursor", "persist">>

Rank(step) == CHOOSE i \in 1..Len(StepOrder) : StepOrder[i] = step

\* C17: the steps taken for a message come in the order fetch, extract,
\* prepare, notify, delete, empty-trash, display, cursor-advance, persist:
\* a step is taken only after the earlier ones that are taken at all, so the
\* reply precedes the delete, the display follows the delete and the
\* trash-emptying, and the cursor is persisted last.
C17_FixedStepOrder ==
    [][\A step \in fx' \ fx : \A done \in fx : Rank(done) < Rank(step)]_vars

\* All nine steps were taken for one message.
C17_Witness ==
    /\ pc = "loop"
    /\ fx = {StepOrder[i] : i \in 1..Len(StepOrder)}

\* C18 (as claimed): the reply that was sent is the success reply exactly
\* when extraction and preparation succeeded, the preparation-failure reply
\* exactly when extraction succeeded and preparation did not, and the
\* failure reply exactly when extraction failed.
C18_ReplySelection ==
    ("reply" \in fx) =>
        /\ (replyKind = "success") <=> (res = "ok" /\ prepared)
        /\ (replyKind = "prep_failure") <=> (res = "ok" /\ ~prepared)
        /\ (replyKind = "failure") <=> (res # "ok")

\* C19: the display is called for a message, and the displayed image
\* changes, only when extraction succeeded and preparation of the first
\* stored path returned an image; otherwise the displayed image stays.
C19_DisplayOnlyWhenPrepared ==
    [][ /\ ("display" \in fx') => (res' = "ok" /\ prepared' /\ image_path' = 1)
        /\ (displayed' # displayed) =>
              (res = "ok" /\ prepared /\ image_path = 1 /\ displayed' = uid)
      ]_vars

\* The image of a later message replaced the one shown before.
C19_Witness ==
    /\ "display" \in fx
    /\ displayed = uid
    /\ uid > 1

\* C20: when the notify, delete or empty-trash step of a message failed, the
\* later steps were still taken by the time the loop moves on: delete and
\* empty-trash were attempted, the display was called if an image was
\* prepared, and the cursor was advanced to at least the identifier.
C20_FailureIsolation ==
    (pc = "loop" /\ failed # {}) =>
        /\ {"delete", "trash", "cursor"} \subseteq fx
        /\ ShouldDisplay(prepared, image_path) => "display" \in fx
        /\ last_uid >= uid

\* Notify, delete and empty-trash all failed for a message whose image was
\* then displayed and whose identifier was persisted.
C20_Witness ==
    /\ pc = "loop"
    /\ failed = {"notify", "delete", "trash"}
    /\ "display" \in fx
    /\ displayed = uid
    /\ Persisted = uid

\* An exception has ended the current message: the fetch raised,
\* process_message_bytes raised, or the cursor write raised.
Raised ==
    \/ internalError
    \/ uid # 0 /\ uid \in fetchFailed /\ ~raw /\ "fetch" \in fx
    \/ "persist" \in failed

\* C21: an exception raised while a message is processed (the fetch
\* included) ends that message only: the loop is back at its head with the
\* rest of the batch untouched, and it leaves the head only to take the next
\* identifier or, when the batch is exhausted, to return.
C21_ErrorEndsOneMessageOnly ==
    [][ /\ (Raised' /\ ~Raised) => (pc' = "loop" /\ uids' = uids /\ uid' = uid)
        /\ (pc = "loop" /\ pc' \notin {"loop", "start"}) =>
              \/ pc' = "fetch" /\ uids # <<>>
              \/ pc' = "wait" /\ uids = <<>>
      ]_vars

\* Message 2 is processed although the fetch of message 1 raised.
C21_Witness ==
    /\ pc \in MsgSteps \ {"fetch"}
    /\ uid = 2
    /\ 1 \in fetchFailed
    /\ cursorAtCheck = 0

\* C22 (as claimed): the process never ends: not when the first connection
\* fails, and not when the first read of the cursor fails.
C22_NeverExits ==
    pc \notin {"exited", "died"}

\* C27 (as claimed): at every point where the process could stop for the
\* first time, at most one message that has had an effect has an identifier
\* above the persisted cursor.
C27_AtMostOneAbovePersisted ==
    LET HasEffect == \/ paths > 0
                     \/ "reply" \in fx /\ "notify" \notin failed
                     \/ "delete" \in fx /\ "delete" \notin failed
                     \/ "display" \in fx /\ displayed = uid
        EffectIds == {a \in 1..nextUid : \/ a \notin mailbox
                                         \/ a = displayed
                                         \/ a = uid /\ HasEffect}
    IN  restarts = 0 => Cardinality({a \in EffectIds : a > Persisted}) <= 1

\* C28: when the process was stopped after a message's delete and before
\* line 728, the start that follows reads the cursor without an error, the
\* persisted cursor is unchanged and the process continues with exactly the
\* persisted cursor; only identifiers of the new listing that are above the
\* cursor are taken.
C28_RestartContinuesAtPersisted ==
    [][ /\ (pc = "start" /\ interrupted /\ pc' # "start") =>
              (pc' = "connect" /\ last_uid' = Persisted /\ Persisted' = Persisted)
        /\ (pc' = "fetch" /\ pc # "fetch") =>
              (pc = "loop" /\ uids # <<>> /\ uid' = Head(uids) /\ uid' > last_uid)
      ]_vars

\* After a stop between the delete of message 2 and line 728, message 3 is
\* processed from the cursor message 1 had persisted.
C28_Witness ==
    /\ restarts = 1
    /\ Persisted = 1
    /\ 2 \notin mailbox
    /\ nextUid = 3
    /\ uid = 3
    /\ cursorAtCheck = 1
    /\ pc = "persist"

\* C29: when the cursor write fails for a message, the loop goes on with the
\* rest of the batch, the in-memory cursor is at or above the message, and
\* the persisted cursor is never above the in-memory cursor of a running
\* process.
C29_PersistFailureKeepsMemoryCursor ==
    [][ /\ ("persist" \in failed' /\ "persist" \notin failed) =>
              (pc' = "loop" /\ uids' = uids /\ last_uid' >= uid)
        /\ (pc' \notin {"start", "died"}) => Persisted' <= last_uid'
        /\ ("persist" \in failed /\ pc = "loop") => last_uid >= uid
      ]_vars

\* The write failed for message 1; message 1, still in the inbox, was listed
\* again in the same run and passed over, and message 2 is being processed.
C29_Witness ==
    /\ Persisted = 0
    /\ last_uid = 1
    /\ 1 \in mailbox
    /\ uid = 2
    /\ pc \in MsgSteps
    /\ restarts = 0

\* C34: within one run of the process send_reply is called at most once for
\* an identifier, however often it is listed: a call is made only for an
\* identifier above the in-memory cursor, an iteration that made a call ends
\* with the cursor at or above its identifier, and the cursor of a running
\* process never decreases.
C34_AtMostOneReplyPerRun ==
    [][ /\ nReplies' <= 1
        /\ (nReplies' > nReplies) => (uid' = uid /\ uid > last_uid)
        /\ (nReplies' > 0 /\ pc # "loop" /\ pc' = "loop") => last_uid' >= uid'
        /\ (pc # "start" /\ pc' # "start") => last_uid' >= last_uid
      ]_vars

\* The only message was replied to and its delete failed; a later listing of
\* the same run holds it again and the loop has passed over it.
C34_Witness ==
    /\ restarts = 0
    /\ nextUid = 1
    /\ 1 \in mailbox
    /\ 1 \notin fetchFailed
    /\ pc = "loop"
    /\ uid = 1
    /\ cursorAtCheck = 1
    /\ last_uid = 1
    /\ fx = {}

\* =========================================================================
\* Properties of SpecStore
\* =========================================================================

\* C7: at every point of set_last_uid, and after a process stop or a power
\* loss at any point during or after it, uid_state.json holds the complete
\* content it had when the call began or the complete record of the call:
\* never a part of a record, never an empty file.
C7_CursorFileOldOrNew ==
    /\ fPath \in {sOld, sNew}
    /\ fPathDisk \in {sOld, sNew}

\* Power was lost after os.replace and the new record survived it.
C7_Witness ==
    /\ spc = "idle"
    /\ ~renamePending
    /\ sOld # sNew
    /\ fPath = sNew
    /\ fPathDisk = sNew
    /\ fTmp = Absent
    /\ sOld.k = "rec"

\* =========================================================================
\* Properties of SpecProc
\* =========================================================================

\* C9: at every point of process_message_bytes, and after a process stop or
\* a power loss at any point inside it, every file in the data directory is
\* completely written, durable, and had passed validation (image type and
\* integrity) before it was moved there.
C9_DataDirHoldsOnlyValidatedImages ==
    \A f \in dataDir :
        /\ f.content = "full"
        /\ f.synced
        /\ f.valid
        /\ f.kind = "image"

\* One image of the message is stored while the candidate of a later part is
\* still an empty, unvalidated file in the temp directory.
C9_Witness ==
    /\ dataDir # {}
    /\ \E g \in tmpDir : g.content = "empty" /\ ~g.valid

\* The attachments of the message that are not passed over.
Attachments == {i \in 1..Len(parts) : ~Skipped(parts[i])}

\* C10 (as claimed): when the call has ended, the outcome is the result
\* attachment_too_large if some non-empty attachment is larger than
\* max_bytes, wherever it is and whatever the other attachments are, and is
\* not that result if none is larger (one of exactly max_bytes included).
C10_FailFastSizePolicy ==
    (ppc \in {"returned", "raised"}) =>
        ((\E i \in Attachments : parts[i].size > MaxBytes)
            <=> (ppc = "returned" /\ result.reason = "attachment_too_large"))

\* C11 (as claimed): when the call returns attachment_too_large, no file of
\* the message is in the data directory and none was recorded as stored.
C11_TooLargeStoresNothing ==
    (ppc = "returned" /\ result.reason = "attachment_too_large") =>
        /\ saved_paths = <<>>
        /\ (runs = 1 => dataDir = {})

\* The attachments that are within the size limit.
WithinLimit == {i \in Attachments : ~TooLarge(parts[i])}

\* The attachments validation accepts: intact images.
ValidImages == {i \in Attachments : validate_and_sanitize_image(parts[i].kind)}

\* C12 (as claimed): for a message with at least one attachment, all within
\* the size limit and none an intact image, the call ends by returning
\* no_valid_image, with no file of it in the data directory and no temp file
\* left.
C12_InvalidOnlyLeavesNothing ==
    (/\ ppc \in {"returned", "raised"}
     /\ runs = 1
     /\ Attachments # {}
     /\ WithinLimit = Attachments
     /\ ValidImages = {}) =>
        /\ ppc = "returned"
        /\ result = [ok |-> FALSE, reason |-> "no_valid_image"]
        /\ dataDir = {}
        /\ tmpDir = {}

\* The attachments of a set, in message order.
RECURSIVE InOrder(_)
InOrder(S) ==
    IF S = {} THEN <<>>
    ELSE <<Min(S)>> \o InOrder(S \ {Min(S)})

\* C13 (as claimed): for a message whose attachments are all within the size
\* limit, the call ends by returning success if and only if some attachment
\* is an intact image, and the stored paths are one per intact image, in
\* message order.
C13_SkipAndContinue ==
    (/\ ppc \in {"returned", "raised"}
     /\ WithinLimit = Attachments) =>
        /\ ppc = "returned"
        /\ result.ok <=> ValidImages # {}
        /\ [i \in 1..Len(saved_paths) |->
              FileIn(dataDir, saved_paths[i]).part] = InOrder(ValidImages)

\* C30 (as claimed): when the first call of process_message_bytes has ended,
\* by returning or by raising, no file is left in the temp directory.
C30_NoTempFileRemains ==
    (ppc \in {"returned", "raised"} /\ runs = 1) => tmpDir = {}

\* C31: the walk passes over a part without a disposition header, a
\* multipart container and a zero-byte payload by going on to the next part,
\* with no file created and no exception; a message of no parts or of such
\* parts only never raises, creates no file, and returns failure with reason
\* no_valid_image.
C31_SkippedPartsLeaveNothing ==
    [][ LET PassedOver(p) == ~p.disp \/ p.multi \/ p.size = 0 IN
        /\ (/\ ppc = "walk"
            /\ pidx < Len(parts)
            /\ PassedOver(parts[pidx + 1])
            /\ <<ppc, pidx>>' # <<ppc, pidx>>
            /\ ppc' # "idle") =>
              /\ ppc' = "walk"
              /\ pidx' = pidx + 1
              /\ <<tmpDir, dataDir, nextName, saved_paths>>' =
                    <<tmpDir, dataDir, nextName, saved_paths>>
        /\ (\A i \in 1..Len(parts') : PassedOver(parts'[i])) =>
              /\ ppc' # "raised"
              /\ tmpDir' = {} /\ dataDir' = {} /\ nextName' = 0
              /\ ppc' = "returned" =>
                    result' = [ok |-> FALSE, reason |-> "no_valid_image"]
      ]_vars

\* A message of a part without disposition and a zero-byte attachment has
\* returned.
C31_Witness ==
    /\ ppc = "returned"
    /\ Len(parts) = 2
    /\ ~parts[1].disp
    /\ parts[2].disp /\ ~parts[2].multi /\ parts[2].size = 0
    /\ result.reason = "no_valid_image"

\* =========================================================================
\* Properties of SpecRepeat
\* =========================================================================

\* C14 (as claimed): when the same bytes are processed a second time with the
\* same directories, the second call stores each image under the final path
\* the first call used, and the data directory holds as many files as after
\* the first call.
C14_SecondRunOverwrites ==
    (prev_run.called /\ ppc = "returned") =>
        /\ saved_paths = prev_run.paths
        /\ Cardinality(dataDir) = prev_run.files

\* =========================================================================
\* Properties of SpecLoop
\* =========================================================================

\* C23 (as claimed): after a mailbox error the loop starts no mailbox
\* operation (wait, listing, or a pass over listed messages) before it has
\* slept the poll interval.
C23_BackOffBeforeNextMailboxOperation ==
    (lpc \in {"wait", "list", "fallback"} \/ (lpc = "process" /\ luids > 0))
        => ~errPending

\* C32: the first wait is entered only after the listing and the pass of
\* lines 783-791; every wait ends, by notification or by timeout alike, and
\* is followed by a listing (over a usable connection: of every message in
\* the inbox) and then a pass (over a usable connection: of every message
\* listed) before the next wait begins.
C32_WaitThenListThenPass ==
    /\ [][ /\ (lpc' = "wait" /\ lpc # "wait") => lpc \in {"first_process", "check"}
           /\ (lpc' = "first_process" /\ lpc # "first_process") => lpc = "first_list"
           /\ (lpc' = "check" /\ lpc # "check") => lpc = "process"
           /\ (lpc' = "process" /\ lpc # "process") => lpc \in {"pause", "fallback"}
           /\ (lpc' = "pause" /\ lpc # "pause") => lpc = "list"
           /\ (lpc' = "fallback" /\ lpc # "fallback") => lpc = "backoff"
           /\ (lpc = "wait" /\ lpc' # "wait") => lpc' \in {"list", "backoff"}
           /\ (lpc \in {"first_list", "list", "fallback"} /\ lpc' # lpc /\ Usable) =>
                 luids' = inbox
           /\ (lpc \in {"first_process", "process"} /\ lpc' # lpc /\ Usable) =>
                 inbox' = inbox - luids
         ]_vars
    /\ (lpc = "wait") ~> (lpc = "check")
    /\ <>(lpc = "wait")

\* A wait has ended by timeout and the listing after it has found a message
\* for the pass.
C32_Witness ==
    /\ lpc = "process"
    /\ ~has_new_mail
    /\ luids = 1
    /\ inbox = 1
    /\ ~errPending

\* C33 (as claimed): whenever the server can be reached, the wrapper comes to
\* hold a connection its calls can work on (so that a listing succeeds and
\* the messages in the inbox are processed), unless the server becomes
\* unreachable again first.
C33_ReconnectOnDemand ==
    net ~> (Usable \/ ~net)

\* C39 (as claimed): a reboot is requested only by a check that found the
\* internet unreachable with the system up for at least one hour.
C39_RebootOnlyAfterAnHour ==
    reboot_requested =>
        /\ ~checked.online
        /\ checked.up >= REBOOT_MIN_UPTIME_SECONDS

\* C39 (amended): a check requests a reboot exactly when it found the internet
\* unreachable and the uptime is at least one hour or could not be read;
\* never while the internet is reachable, never while a readable uptime is
\* below the threshold; after every check the loop goes on to the next wait.
C39_RebootOnlyOfflineAndUpLongOrUnreadable ==
    [][lpc = "check" /\ lpc' # "check" =>
         /\ reboot_requested' =
               (/\ ~checked'.online
                /\ (checked'.readable =>
                      checked'.up >= REBOOT_MIN_UPTIME_SECONDS))
         /\ lpc' = "wait"]_vars
    /\ [][reboot_requested' # reboot_requested => lpc = "check"]_vars

C39_Witness ==
    /\ lpc = "wait"
    /\ reboot_requested
    /\ ~checked.online
    /\ checked.readable
    /\ checked.up = REBOOT_MIN_UPTIME_SECONDS

\* =========================================================================
\* Properties of SpecButton
\* =========================================================================

\* C24 (as claimed): the pipeline thread and the button thread are never
\* both inside inky.set_image / inky.show.
C24_DisplaySingleOwner ==
    ~(dpc \in Writing /\ bpc \in Writing)

\* C25 (as claimed): a redraw by the button thread is never that of a press
\* that arrived less than DEBOUNCE_SECONDS after the arrival of the accepted
\* press before it.
C25_PressWithinWindowIgnored ==
    bpc \in Writing => event.gap >= DEBOUNCE_SECONDS

\* C36 (as claimed): whenever the watcher reads the tracked state to redraw
\* (main.py 428-431), current_image and current_image_path describe the same
\* image.
C36_TrackedImageAndPathAgree ==
    bpc = "apply" => current_image = current_image_path

\* =========================================================================
\* Properties of SpecToggle
\* =========================================================================

C26_NoReasonCodeInReply ==
    error_code \in {"attachment_too_large", "no_valid_image", "no_attachments",
                    "invalid_mime_type", "image_verification_failed"} =>
        /\ ~Contains(error_message, error_code)
        /\ ~Contains(body, error_code)
        /\ ~Contains(html, error_code)

\* =========================================================================
\* Properties of SpecFolder
\* =========================================================================

\* C35 (as claimed): whenever the pipeline is about to list, fetch or delete,
\* the folder selected on the session is the inbox.
C35_InboxSelectedForPipeline ==
    tpc \in {"list", "fetch", "delete"} => selected = "inbox"

\* =========================================================================
\* Properties of SpecSettings
\* =========================================================================

\* C37 (as claimed): a read_setting of the pipeline thread for a key the
\* settings file holds (a line of the file, or a line other than the one
\* being written that write_setting has taken over from the file it
\* truncated) returns a value found in the file, whole.
C37_ReadDuringRewriteReturnsStored ==
    [][LET held(name) ==
              \/ \E i \in 1..Len(cfg) : cfg[i].key = name /\ ~cfg[i].cut
              \/ /\ wpc \in {"write", "rest"}
                 /\ name # "ORIENTATION"
                 /\ \E i \in 1..Len(out_lines) : out_lines[i].key = name
       IN  (got' # got /\ held(got'.name)) => (got'.found /\ ~got'.cut)]_vars

====
